---------------------------- MODULE Spec2Model ----------------------------
(***************************************************************************)
(* MailMind: the PST ingestion pipeline (pst-parser), its text             *)
(* normalisation helpers and the lexical search of the local storage.      *)
(*                                                                         *)
(* A JavaScript string is a sequence of one-character strings, one per     *)
(* UTF-16 code unit.  Code units outside ASCII are written as tokens:      *)
(*   "^A"                 U+0001, an ASCII control character               *)
(*   "xA1" "xB0" "xFD"    U+00A1, U+00B0, U+00FD (also the bytes A1 B0 FD) *)
(*   "FFFD"               U+FFFD, the replacement character                *)
(*   "U+AC00" ...         characters a CP949 byte pair decodes to          *)
(***************************************************************************)
EXTENDS Integers, Sequences, FiniteSets, TLC

VARIABLES
    \* ---- the clock
    now,            \* Date.now(), in milliseconds after Epoch
    \* ---- parsePSTFile / processFolder / extractAttachments
    pc,             \* "start", "walk", "return" or "done"
    archive,        \* the PST file and the options: folder tree, entries, saveAttachments
    stack,          \* the calls of processFolder in progress, innermost last
    emails,         \* const emails: ParsedEmail[]
    errors,         \* const errors: string[]
    files,          \* the relative paths opened for writing under attachmentsDir
    visit,          \* per entry, what the archive and the disk did when it was processed
    result,         \* the PSTParseResult returned, or NoResult
    \* ---- safeBasename / stored names (pst-parser)
    attInput,       \* the attachment handed to the naming step
    attIndex,       \* its index i in the message
    storedRef,      \* what extractAttachments made of it, or NoRef
    \* ---- stripInjectedHeaderBlock / normalizeBody
    bodyText,       \* the text handed to stripInjectedHeaderBlock
    bodyShape,      \* how bodyText was put together (headers, blank, body)
    stripped,       \* the text returned, or Pending
    \* ---- extractSender
    email,          \* the PSTMessage fields extractSender reads
    senderShape,    \* how email.body was put together: prefix, From: name, next field
    sender,         \* what extractSender returned, or NoSender
    \* ---- LocalSQLiteStorage (local-storage)
    dbEmails,       \* the rows of the table emails, in id order (id = position)
    dbAttachments,  \* the rows of the table email_attachments, in id order
    search,         \* the last searchEmails call on this store and its result, or NoSearch
    \* ---- DatabaseStorage: rag_chunks (storage)
    ragChunks,      \* the rows of the table rag_chunks, in id order (id = position)
    ragSearch,      \* the searchRagChunks call observed and its result, or NoRagSearch
    \* ---- chunkString (routes)
    chunkInput,     \* the text, size and overlap handed to chunkString
    chunked,        \* the chunks returned, or NotChunked
    \* ---- classifyEmail / extractEventsFromEmail (ollama)
    llmReply,       \* what the language-model service answers to the request
    llmResult,      \* what classifyEmail and extractEventsFromEmail returned, or NoLlmResult
    \* ---- POST /api/import with the background embedding pass (routes)
    rimpPc,         \* "request", "background", "finished" or "rejected"
    rimpUpload,     \* req.file: what was uploaded
    rimpDb,         \* the tables emails and rag_chunks
    rimpInserted,   \* const insertedEmails
    rimpNext,       \* how many emails the background loop has gone through
    rimpTrace,      \* the calls made so far, in order: persist, respond, classify, embed
    rimpResponse,   \* the response sent, or NoResponse
    \* ---- POST /api/import with the enrichment loop before the answer (routes)
    impPc,          \* "request", "enrich" or "done"
    impFiles,       \* req.files: the uploaded files
    impStore,       \* the tables emails, import_logs, calendar_events and the directories made
    impInserted,    \* const insertedEmails
    impConnected,   \* const ollamaConnected
    impNext,        \* how many emails the enrichment loop has gone through
    impTrace,       \* the calls made so far, in order
    impResponse,    \* the response sent, or NoResponse
    \* ---- insertEmailsAndGetIds (storage)
    insRows,        \* the rows of the table emails
    insBefore,      \* the rows of the table before the call
    insRecords,     \* emailsToInsert; fails marks a record whose insert throws
    insCall,        \* which form was called, whether it threw, and what it returned
    \* ---- chunkString, iteration by iteration (routes)
    loopPc,         \* "run" or "done"
    loopInput,      \* the text, size and overlap handed to chunkString
    loopStart,      \* let start
    loopChunks,     \* const chunks
    \* ---- normalizeBody, applied twice (part_003)
    normPc,         \* "start", "once" or "twice"
    normText,       \* the text handed to normalizeBody
    normOnce,       \* normalizeBody(text)
    normTwice,      \* normalizeBody(normalizeBody(text))
    \* ---- decodeText on one text (part_003)
    decText,        \* the text handed to decodeText
    decoded,        \* what decodeText returned, or NotDecoded
    \* ---- extractBody on one message (part_003)
    bodyMsg,        \* the message: its fields body and bodyHTML
    extracted,      \* what extractBody returned, or NotExtracted
    \* ---- POST /api/import on archives with attachments (routes)
    aimpPc,         \* "parse" or "done"
    aimpUploads,    \* req.files: per file its kind and the attachments of its messages
    aimpNext,       \* the file the loop over req.files is at
    aimpToImport,   \* emailsToImport: per message its source and its _attachments
    aimpDisk,       \* the files below attachmentsRoot
    aimpEmails,     \* insertedEmails: the rows of the table emails
    aimpRows,       \* the rows of the table email_attachments
    \* ---- concurrent setAppSetting calls (storage)
    settings,       \* the rows of the table app_settings
    setCalls,       \* per call: where it is and what getAppSetting returned to it
    \* ---- classification and processed flag of the emails table (routes, local-storage)
    procEmails,     \* per email id: classification, confidence and is_processed
    procLast,       \* the handler that answered the last request
    procCount       \* how many requests have been answered

parseVars == <<pc, archive, stack, emails, errors, files, visit, result>>
nameVars  == <<attInput, attIndex, storedRef>>
stripVars == <<bodyText, bodyShape, stripped>>
senderVars == <<email, senderShape, sender>>
searchVars == <<dbEmails, dbAttachments, search>>
ragVars == <<ragChunks, ragSearch>>
chunkVars == <<chunkInput, chunked>>
llmVars == <<llmReply, llmResult>>
rimpVars == <<rimpPc, rimpUpload, rimpDb, rimpInserted, rimpNext, rimpTrace, rimpResponse>>
impVars == <<impPc, impFiles, impStore, impInserted, impConnected, impNext, impTrace, impResponse>>
insVars == <<insRows, insBefore, insRecords, insCall>>
loopVars == <<loopPc, loopInput, loopStart, loopChunks>>
normVars == <<normPc, normText, normOnce, normTwice>>
decVars == <<decText, decoded>>
bodyVars == <<bodyMsg, extracted>>
aimpVars == <<aimpPc, aimpUploads, aimpNext, aimpToImport, aimpDisk, aimpEmails, aimpRows>>
setVars == <<settings, setCalls>>
procVars == <<procEmails, procLast, procCount>>
\* the groups before and after the search store
oldVars == <<nameVars, stripVars, senderVars, searchVars>>
laterVars == <<ragVars, chunkVars, llmVars, rimpVars, impVars, insVars, loopVars, normVars, decVars, bodyVars, aimpVars, setVars, procVars>>
notRagVars == <<chunkVars, llmVars, rimpVars, impVars, insVars, loopVars, normVars, decVars, bodyVars, aimpVars, setVars, procVars>>
notChunkVars == <<ragVars, llmVars, rimpVars, impVars, insVars, loopVars, normVars, decVars, bodyVars, aimpVars, setVars, procVars>>
notLlmVars == <<ragVars, chunkVars, rimpVars, impVars, insVars, loopVars, normVars, decVars, bodyVars, aimpVars, setVars, procVars>>
notRimpVars == <<ragVars, chunkVars, llmVars, impVars, insVars, loopVars, normVars, decVars, bodyVars, aimpVars, setVars, procVars>>
notImpVars == <<ragVars, chunkVars, llmVars, rimpVars, insVars, loopVars, normVars, decVars, bodyVars, aimpVars, setVars, procVars>>
notInsVars == <<ragVars, chunkVars, llmVars, rimpVars, impVars, loopVars, normVars, decVars, bodyVars, aimpVars, setVars, procVars>>
notLoopVars == <<ragVars, chunkVars, llmVars, rimpVars, impVars, insVars, normVars, decVars, bodyVars, aimpVars, setVars, procVars>>
notNormVars == <<ragVars, chunkVars, llmVars, rimpVars, impVars, insVars, loopVars, decVars, bodyVars, aimpVars, setVars, procVars>>
notDecVars == <<ragVars, chunkVars, llmVars, rimpVars, impVars, insVars, loopVars, normVars, bodyVars, aimpVars, setVars, procVars>>
notBodyVars == <<ragVars, chunkVars, llmVars, rimpVars, impVars, insVars, loopVars, normVars, decVars, aimpVars, setVars, procVars>>
notAimpVars == <<ragVars, chunkVars, llmVars, rimpVars, impVars, insVars, loopVars, normVars, decVars, bodyVars, setVars, procVars>>
notSetVars == <<ragVars, chunkVars, llmVars, rimpVars, impVars, insVars, loopVars, normVars, decVars, bodyVars, aimpVars, procVars>>
notProcVars == <<ragVars, chunkVars, llmVars, rimpVars, impVars, insVars, loopVars, normVars, decVars, bodyVars, aimpVars, setVars>>
\* what a parse leaves alone
otherVars == <<oldVars, laterVars>>
vars == <<now, parseVars, oldVars, laterVars>>

-----------------------------------------------------------------------------
(* JavaScript string primitives *)

Min(a, b) == IF a < b THEN a ELSE b
Max(a, b) == IF a > b THEN a ELSE b

UpperLetters == <<"A","B","C","D","E","F","G","H","I","J","K","L","M",
                  "N","O","P","Q","R","S","T","U","V","W","X","Y","Z">>
LowerLetters == <<"a","b","c","d","e","f","g","h","i","j","k","l","m",
                  "n","o","p","q","r","s","t","u","v","w","x","y","z">>
Digits == <<"0","1","2","3","4","5","6","7","8","9">>

Range(s) == {s[i] : i \in 1..Len(s)}

\* String.prototype.toLowerCase, one code unit
ToLowerChar(c) ==
    IF c \in Range(UpperLetters)
    THEN LowerLetters[CHOOSE i \in 1..26 : UpperLetters[i] = c]
    ELSE c

ToLower(s) == [i \in 1..Len(s) |-> ToLowerChar(s[i])]

\* the regular expression class \s, and the characters trim() removes
IsSpace(c) == c \in {" ", "\t", "\n", "\r"}

IsWordChar(c) ==
    c \in Range(UpperLetters) \cup Range(LowerLetters) \cup Range(Digits) \cup {"_"}

\* number of leading / trailing white-space characters
LeadSpaces(s) ==
    IF \A i \in 1..Len(s) : IsSpace(s[i]) THEN Len(s)
    ELSE (CHOOSE i \in 1..Len(s) :
              ~IsSpace(s[i]) /\ \A j \in 1..(i - 1) : IsSpace(s[j])) - 1

TrailSpaces(s) ==
    IF \A i \in 1..Len(s) : IsSpace(s[i]) THEN Len(s)
    ELSE Len(s) - (CHOOSE i \in 1..Len(s) :
              ~IsSpace(s[i]) /\ \A j \in (i + 1)..Len(s) : IsSpace(s[j]))

\* String.prototype.trim
Trim(s) ==
    IF LeadSpaces(s) = Len(s) THEN <<>>
    ELSE SubSeq(s, LeadSpaces(s) + 1, Len(s) - TrailSpaces(s))

\* String.prototype.slice(0, n)
Slice0(s, n) == SubSeq(s, 1, Min(Len(s), n))

\* s.slice(i - 1): the suffix starting at position i (1-based)
From(s, i) == SubSeq(s, i, Len(s))

\* pat occurs in s at position i (1-based)
MatchAt(s, pat, i) ==
    /\ i >= 1
    /\ i + Len(pat) - 1 <= Len(s)
    /\ \A k \in 1..Len(pat) : s[i + k - 1] = pat[k]

\* String.prototype.includes
Includes(s, pat) == \E i \in 1..(Len(s) + 1) : MatchAt(s, pat, i)

\* the concatenation of ss[lo..hi], by halves (texts are longer than the evaluator's
\* stack allows a character-by-character recursion to be)
RECURSIVE FlattenRange(_, _, _)
FlattenRange(ss, lo, hi) ==
    IF lo > hi THEN <<>>
    ELSE IF lo = hi THEN ss[lo]
    ELSE LET mid == (lo + hi) \div 2
         IN  FlattenRange(ss, lo, mid) \o FlattenRange(ss, mid + 1, hi)

Flatten(ss) == FlattenRange(ss, 1, Len(ss))

\* Array.prototype.join
RECURSIVE Join(_, _)
Join(lines, sep) ==
    IF lines = <<>> THEN <<>>
    ELSE IF Len(lines) = 1 THEN lines[1]
    ELSE lines[1] \o sep \o Join(Tail(lines), sep)

\* String.prototype.split("\n")
RECURSIVE SplitLines(_)
SplitLines(s) ==
    IF \A i \in 1..Len(s) : s[i] # "\n" THEN <<s>>
    ELSE LET i == CHOOSE i \in 1..Len(s) :
                      s[i] = "\n" /\ \A j \in 1..(i - 1) : s[j] # "\n"
         IN  <<SubSeq(s, 1, i - 1)>> \o SplitLines(From(s, i + 1))

\* String.prototype.replace(/\r\n/g, "\n")
ReplaceCRLF(s) ==
    Flatten([i \in 1..Len(s) |->
                IF MatchAt(s, <<"\r", "\n">>, i) THEN <<>> ELSE <<s[i]>>])

\* n copies of the character c
Repeat(c, n) == [i \in 1..n |-> c]

\* s without the characters of drop: replace(/[...]/g, "")
SelectChars(s, drop) ==
    Flatten([i \in 1..Len(s) |-> IF s[i] \in drop THEN <<>> ELSE <<s[i]>>])

-----------------------------------------------------------------------------
(* decodeText: encoding recovery *)

ReplacementChar == "FFFD"
\* [\x00-\x08\x0B\x0C\x0E-\x1F] within the model's alphabet
StrayControls == {"^@", "^A"}
\* [\x80-\xFF] within the model's alphabet; the same tokens name the bytes
HighLatin1 == {"xA1", "xB0", "xFD"}
\* code units above U+00FF
WideChars == {"FFFD", "U+AC00", "U+AC19", "U+AD04", "U+3000", "U+201C",
              "U+2228", "U+73DD", "U+723B", "U+7FB2", "U+CE9A", "U+C8A5"}

\* bytes that only arise as the low byte of a decoded character
OtherHighBytes == {"xDD", "xB2", "x9A", "xA5"}
Utf8OnlyBytes  == {"xEF", "xBF", "xBD", "xEA", "x80"}

\* Buffer.from(text, "latin1"): the low byte of every code unit
Latin1Byte(c) ==
    CASE c = "FFFD" -> <<"xFD">>
      [] c \in {"U+AC00", "U+3000"} -> <<"^@">>               \* 0x00
      [] c \in {"U+AC19", "U+AD04", "U+201C"} -> <<"^A">>     \* 0x19, 0x04, 0x1C
      [] c = "U+2228" -> <<"(">>
      [] c = "U+723B" -> <<";">>
      [] c = "U+73DD" -> <<"xDD">>
      [] c = "U+7FB2" -> <<"xB2">>
      [] c = "U+CE9A" -> <<"x9A">>
      [] c = "U+C8A5" -> <<"xA5">>
      [] OTHER -> <<c>>

\* Buffer.from(text, "utf-8") of a text without [\x80-\xFF]
Utf8Bytes(c) ==
    CASE c = "FFFD" -> <<"xEF", "xBF", "xBD">>
      [] c \in WideChars -> <<"xEA", "xB0", "x80">>
      [] OTHER -> <<c>>

FromLatin1(text) == Flatten([i \in 1..Len(text) |-> Latin1Byte(text[i])])
FromUtf8(text)   == Flatten([i \in 1..Len(text) |-> Utf8Bytes(text[i])])

\* buffer.toString("utf-8"): ill-formed sequences become U+FFFD.  The only well-formed
\* multi-byte sequences of the model's bytes are EF BF BD and EA B0 80
Utf8Decode(b) ==
    LET starts(i) == MatchAt(b, <<"xEF", "xBF", "xBD">>, i)
                       \/ MatchAt(b, <<"xEA", "xB0", "x80">>, i)
    IN  Flatten([i \in 1..Len(b) |->
            CASE MatchAt(b, <<"xEF", "xBF", "xBD">>, i) -> <<"FFFD">>
              [] MatchAt(b, <<"xEA", "xB0", "x80">>, i) -> <<"U+AC00">>
              [] (i > 1 /\ starts(i - 1)) \/ (i > 2 /\ starts(i - 2)) -> <<>>
              [] b[i] \in HighLatin1 \cup OtherHighBytes \cup Utf8OnlyBytes -> <<"FFFD">>
              [] OTHER -> <<b[i]>>])

\* the CP949 double-byte table restricted to the model's bytes
Cp949Pair(lead, trail) ==
    CASE lead = "xB0" /\ trail = "xA1" -> "U+AC00"
      [] lead = "xB0" /\ trail = "xB0" -> "U+AC19"
      [] lead = "xB0" /\ trail = "xFD" -> "U+AD04"
      [] lead = "xA1" /\ trail = "xA1" -> "U+3000"
      [] lead = "xA1" /\ trail = "xB0" -> "U+201C"
      [] lead = "xA1" /\ trail = "xFD" -> "U+2228"
      [] lead = "xFD" /\ trail = "xB0" -> "U+73DD"
      [] lead = "xFD" /\ trail = "xA1" -> "U+723B"
      [] lead = "xFD" /\ trail = "xFD" -> "U+7FB2"
      [] lead = "xB0" -> "U+CE9A"
      [] OTHER -> "U+C8A5"

\* a CP949 trail byte: 0x41-0x5A, 0x61-0x7A (only after a lead below 0xC7) or 0x81-0xFE
IsCp949Trail(lead, trail) ==
    \/ trail \in HighLatin1
    \/ /\ lead \in {"xA1", "xB0"}
       /\ trail \in Range(UpperLetters) \cup Range(LowerLetters)

\* the number of lead-capable bytes directly before position i
LeadRunBefore(b, i) ==
    IF \A j \in 1..(i - 1) : b[j] \in HighLatin1 THEN i - 1
    ELSE i - 1 - (CHOOSE j \in 1..(i - 1) :
                      b[j] \notin HighLatin1 /\ \A k \in (j + 1)..(i - 1) : b[k] \in HighLatin1)

\* iconv.decode(buffer, "cp949") and, by iconv-lite's alias, "euc-kr": a lead byte and
\* a trail byte make one character, any other byte above 0x7F makes U+FFFD.  Within a
\* run of lead-capable bytes the pairs start at the odd positions of the run
Cp949Decode(b) ==
    LET isTrail(i) == /\ i > 1
                      /\ LeadRunBefore(b, i) % 2 = 1
                      /\ IsCp949Trail(b[i - 1], b[i])
    IN  Flatten([i \in 1..Len(b) |->
            CASE isTrail(i) -> <<>>
              [] b[i] \in HighLatin1 /\ i < Len(b) /\ isTrail(i + 1) ->
                     <<Cp949Pair(b[i], b[i + 1])>>
              [] b[i] \in HighLatin1 \cup OtherHighBytes \cup Utf8OnlyBytes -> <<"FFFD">>
              [] OTHER -> <<b[i]>>])

HasStrayControl(s) == \E i \in 1..Len(s) : s[i] \in StrayControls
HasReplacement(s)  == \E i \in 1..Len(s) : s[i] = ReplacementChar
HasHighLatin1(s)   == \E i \in 1..Len(s) : s[i] \in HighLatin1
\* the literal the second pst-parser tests with includes(): a space
HasBlankLiteral(s) == \E i \in 1..Len(s) : s[i] = " "

\* lines 250-268: the first of the UTF-8 and the CP949 reading that passes its test
PickDecoded(text, utf8Text, cp949Text) ==
    IF ~HasBlankLiteral(utf8Text) /\ ~HasStrayControl(utf8Text) THEN utf8Text
    ELSE IF ~HasBlankLiteral(cp949Text) THEN cp949Text
    ELSE text

DecodeBuffer(text, buffer) == PickDecoded(text, Utf8Decode(buffer), Cp949Decode(buffer))

DecodeText(text) ==
    IF text = <<>> THEN <<>>
    ELSE IF ~HasReplacement(text) /\ ~HasStrayControl(text) THEN text
    ELSE DecodeBuffer(text, IF HasBlankLiteral(text) \/ HasHighLatin1(text)
                            THEN FromLatin1(text) ELSE FromUtf8(text))

-----------------------------------------------------------------------------
(* looksLikeHtml, htmlToPlainText *)

\* the position of the first non-white-space character at or after i
SkipSpaces(s, i) ==
    IF \A j \in i..Len(s) : IsSpace(s[j]) THEN Len(s) + 1
    ELSE CHOOSE j \in i..Len(s) : ~IsSpace(s[j]) /\ \A k \in i..(j - 1) : IsSpace(s[k])

\* the first position from i on that holds white space, Len(s) + 1 when none does
SkipToSpace(s, i) ==
    IF \A j \in i..Len(s) : ~IsSpace(s[j]) THEN Len(s) + 1
    ELSE CHOOSE j \in i..Len(s) : IsSpace(s[j]) /\ \A k \in i..(j - 1) : ~IsSpace(s[k])

\* pat occurs in s at position i, ignoring case (the i flag); pat is lower case
MatchAtI(s, pat, i) ==
    /\ i >= 1
    /\ i + Len(pat) - 1 <= Len(s)
    /\ \A k \in 1..Len(pat) : ToLowerChar(s[i + k - 1]) = pat[k]

StructuralTags == {<<"h","t","m","l">>, <<"h","e","a","d">>, <<"m","e","t","a">>,
                   <<"b","o","d","y">>, <<"s","p","a","n">>, <<"f","o","n","t">>,
                   <<"d","i","v">>, <<"p">>, <<"b","r">>, <<"t","a","b","l","e">>}
DoctypeMark == <<"<","!","D","O","C","T","Y","P","E">>
RtfMark == <<"c","o","n","v","e","r","t","e","d"," ","f","r","o","m"," ",
             "t","e","x","t","/","r","t","f">>

LooksLikeHtml(text) ==
    LET t == Trim(text)
    IN  /\ text # <<>>
        /\ \/ MatchAt(t, DoctypeMark, 1)
           \/ \E i \in 1..Len(t), tag \in StructuralTags :
                 /\ t[i] = "<"
                 /\ MatchAtI(t, tag, i + 1)
                 /\ (i + Len(tag) + 1 > Len(t) \/ ~IsWordChar(t[i + Len(tag) + 1]))
           \/ \E i \in 1..Len(t) : MatchAtI(t, RtfMark, i)

\* html-to-text's lexing of the markup the model's bodies use: a tag is "<" up to the
\* next ">"; <br> is a line break, <p> and </p> bound a paragraph, <div> and </div> a
\* block, any other tag is dropped; white space in text collapses
TagName(tag) ==
    LET body == IF tag # <<>> /\ tag[1] = "/" THEN Tail(tag) ELSE tag
        n == IF \A i \in 1..Len(body) : IsWordChar(body[i]) THEN Len(body)
             ELSE (CHOOSE i \in 1..Len(body) :
                       ~IsWordChar(body[i]) /\ \A j \in 1..(i - 1) : IsWordChar(body[j])) - 1
    IN  ToLower(SubSeq(body, 1, n))

TagToken(tag) ==
    CASE TagName(tag) = <<"b","r">> -> <<"BR">>
      [] TagName(tag) = <<"p">> -> <<"PB">>
      [] TagName(tag) = <<"d","i","v">> -> <<"LB">>
      [] OTHER -> <<>>

\* position i of s lies in a tag opened at an earlier "<"
InsideTag(s, i) ==
    /\ \E k \in i..Len(s) : s[k] = ">"
    /\ \E j \in 1..(i - 1) : s[j] = "<" /\ \A k \in j..(i - 1) : s[k] # ">"

HtmlTokens(s) ==
    Flatten([i \in 1..Len(s) |->
        CASE InsideTag(s, i) -> <<>>
          [] s[i] = "<" /\ \E j \in (i + 1)..Len(s) : s[j] = ">" ->
                 LET j == CHOOSE j \in (i + 1)..Len(s) :
                              s[j] = ">" /\ \A k \in (i + 1)..(j - 1) : s[k] # ">"
                 IN  TagToken(SubSeq(s, i + 1, j - 1))
          [] IsSpace(s[i]) -> <<" ">>
          [] OTHER -> <<s[i]>>])

\* the separator owed before a character: 0 none, 1 a space, 2 a line break,
\* 3 a paragraph break
SeparatorRank(tok) ==
    CASE tok = " " -> 1 [] tok = "LB" -> 2 [] tok = "PB" -> 3 [] OTHER -> 0

PendingText(pending) ==
    CASE pending = 1 -> <<" ">>
      [] pending = 2 -> <<"\n">>
      [] pending = 3 -> <<"\n", "\n">>
      [] OTHER -> <<>>

IsSeparator(tok) == tok \in {" ", "LB", "PB"}

HtmlRender(toks) ==
    LET \* the separators between the previous character or <br> and token i
        gap(i) == IF \A j \in 1..(i - 1) : IsSeparator(toks[j]) THEN 1..(i - 1)
                  ELSE ((CHOOSE j \in 1..(i - 1) :
                             /\ ~IsSeparator(toks[j])
                             /\ \A k \in (j + 1)..(i - 1) : IsSeparator(toks[k])) + 1)..(i - 1)
        first(i) == \A j \in 1..(i - 1) : IsSeparator(toks[j])
        pending(i) == IF gap(i) = {} THEN 0
                      ELSE CHOOSE r \in 0..3 :
                               /\ \E j \in gap(i) : SeparatorRank(toks[j]) = r
                               /\ \A j \in gap(i) : SeparatorRank(toks[j]) <= r
    IN  Flatten([i \in 1..Len(toks) |->
            CASE IsSeparator(toks[i]) -> <<>>
              [] toks[i] = "BR" ->
                     IF pending(i) >= 2 /\ ~first(i)
                     THEN PendingText(pending(i)) \o <<"\n">> ELSE <<"\n">>
              [] OTHER ->
                     IF first(i) THEN <<toks[i]>> ELSE PendingText(pending(i)) \o <<toks[i]>>])

HtmlToPlainText(html) == Trim(HtmlRender(HtmlTokens(html)))

-----------------------------------------------------------------------------
(* stripInjectedHeaderBlock, normalizeBody, extractBody *)

ScanLimit == 15
HeaderThreshold == 3

\* the patterns of headerKeys, each a list of words separated by \s*
HeaderKeys == {<< <<"s","t","a","g","e">> >>, << <<"f","r","o","m">> >>,
               << <<"t","o">> >>, << <<"c","c">> >>, << <<"b","c","c">> >>,
               << <<"r","e","p","l","y">>, <<"r","e","q","u","i","r","e","d">> >>,
               << <<"d","a","t","e">> >>, << <<"s","e","n","t">> >>,
               << <<"s","u","b","j","e","c","t">> >>}

\* ^w1\s*w2\s*...\s*: matches t from position i on (the i flag)
RECURSIVE MatchKeyAt(_, _, _)
MatchKeyAt(t, words, i) ==
    IF words = <<>> THEN SkipSpaces(t, i) <= Len(t) /\ t[SkipSpaces(t, i)] = ":"
    ELSE /\ MatchAtI(t, words[1], SkipSpaces(t, i))
         /\ MatchKeyAt(t, Tail(words), SkipSpaces(t, i) + Len(words[1]))

\* headerKeys.some((re) => re.test(t)) for a trimmed line t
IsHeaderLine(t) ==
    \E key \in HeaderKeys : MatchAtI(t, key[1], 1) /\ MatchKeyAt(t, Tail(key), 1 + Len(key[1]))

IsBlankLine(line) == Trim(line) = <<>>

\* the number of blank lines at the front of lines
LeadBlank(lines) ==
    IF \A i \in 1..Len(lines) : IsBlankLine(lines[i]) THEN Len(lines)
    ELSE (CHOOSE i \in 1..Len(lines) :
              ~IsBlankLine(lines[i]) /\ \A j \in 1..(i - 1) : IsBlankLine(lines[j])) - 1

\* the loop over lines[start .. min(length, start + limit) - 1] (0-based): the header
\* lines counted before the first line that is no header line
\* while (rest.length && !rest[0].trim()) rest.shift()
DropLeadBlank(rest) == From(rest, LeadBlank(rest) + 1)

HeaderRun(lines, start, limit) ==
    LET last == Min(Len(lines), start + limit)     \* 1-based index of the last line scanned
        scan == (start + 1)..last
    IN  IF \A i \in scan : IsHeaderLine(Trim(lines[i])) THEN last - start
        ELSE (CHOOSE i \in scan :
                  /\ ~IsHeaderLine(Trim(lines[i]))
                  /\ \A j \in (start + 1)..(i - 1) : IsHeaderLine(Trim(lines[j]))) - start - 1

\* lines 373-379, for headerLineCount header lines found after the blank lines that
\* open the text: next is the line that ended the run
StripCounted(normalized, lines, start, limit, threshold, headerLineCount) ==
    LET next == start + headerLineCount + 1
        consumed == IF next <= Min(Len(lines), start + limit) /\ IsBlankLine(lines[next])
                    THEN headerLineCount + 1 ELSE headerLineCount
    IN  IF headerLineCount >= threshold
        THEN Trim(Join(DropLeadBlank(From(lines, start + consumed + 1)), <<"\n">>))
        ELSE Trim(normalized)

StripLines(normalized, lines, start, limit, threshold) ==
    StripCounted(normalized, lines, start, limit, threshold, HeaderRun(lines, start, limit))

StripNormalized(normalized, lines, limit, threshold) ==
    StripLines(normalized, lines, LeadBlank(lines), limit, threshold)

StripWith(text, limit, threshold) ==
    IF text = <<>> THEN <<>>
    ELSE StripNormalized(ReplaceCRLF(text), SplitLines(ReplaceCRLF(text)), limit, threshold)

\* mutants: the threshold off by one, either way
StripThresholdTwo(text)  == StripWith(text, ScanLimit, HeaderThreshold - 1)
StripThresholdFour(text) == StripWith(text, ScanLimit, HeaderThreshold + 1)

StripInjectedHeaderBlock(text) == StripWith(text, ScanLimit, HeaderThreshold)

\* mutant: only spaces are removed from the end of a line
TrimLineEndSpaces(line) ==
    IF \A i \in 1..Len(line) : line[i] = " " THEN <<>>
    ELSE SubSeq(line, 1, CHOOSE i \in 1..Len(line) :
                             /\ line[i] # " "
                             /\ \A j \in (i + 1)..Len(line) : line[j] = " ")

\* line.replace(/[ \t]+$/g, "")
TrimLineEnd(line) ==
    IF \A i \in 1..Len(line) : line[i] \in {" ", "\t"} THEN <<>>
    ELSE SubSeq(line, 1, CHOOSE i \in 1..Len(line) :
                             /\ line[i] \notin {" ", "\t"}
                             /\ \A j \in (i + 1)..Len(line) : line[j] \in {" ", "\t"})

\* t.replace(/\n{3,}/g, "\n\n"): of a run of newlines the first two stay
CollapseNewlines(t) ==
    Flatten([i \in 1..Len(t) |->
                IF i >= 3 /\ t[i] = "\n" /\ t[i - 1] = "\n" /\ t[i - 2] = "\n"
                THEN <<>> ELSE <<t[i]>>])

TrimLineEnds(lines) == Join([i \in 1..Len(lines) |-> TrimLineEnd(lines[i])], <<"\n">>)

NormalizeBody(text) ==
    IF text = <<>> THEN <<>>
    ELSE Trim(CollapseNewlines(TrimLineEnds(SplitLines(StripInjectedHeaderBlock(text)))))

\* mutant: the HTML field is preferred to the plain-text field that is markup
HtmlFieldFirst(bodyRaw, htmlRaw, bodyConverted, htmlConverted) ==
    IF Trim(bodyRaw) # <<>> /\ ~LooksLikeHtml(bodyRaw) THEN Trim(bodyRaw)
    ELSE IF Trim(htmlRaw) # <<>> /\ htmlConverted # <<>> THEN htmlConverted
    ELSE IF Trim(bodyRaw) # <<>> /\ bodyConverted # <<>> THEN bodyConverted
    ELSE Trim(IF bodyRaw # <<>> THEN bodyRaw ELSE htmlRaw)

\* the text extractBody hands to normalizeBody, for the decoded body and the HTML
\* converted (or "" where the code does not convert)
BodyToNormalize(bodyRaw, htmlRaw, bodyConverted, htmlConverted) ==
    IF Trim(bodyRaw) # <<>> /\ ~LooksLikeHtml(bodyRaw) THEN Trim(bodyRaw)
    ELSE IF Trim(bodyRaw) # <<>> /\ bodyConverted # <<>> THEN bodyConverted
    ELSE IF Trim(htmlRaw) # <<>> /\ htmlConverted # <<>> THEN htmlConverted
    ELSE Trim(IF bodyRaw # <<>> THEN bodyRaw ELSE htmlRaw)

ExtractDecodedBody(bodyRaw, htmlRaw) ==
    NormalizeBody(BodyToNormalize(bodyRaw, htmlRaw,
                                  IF LooksLikeHtml(bodyRaw) THEN HtmlToPlainText(bodyRaw) ELSE <<>>,
                                  HtmlToPlainText(htmlRaw)))

ExtractBody(e) == ExtractDecodedBody(DecodeText(e.body), DecodeText(e.bodyHTML))

-----------------------------------------------------------------------------
(* extractSenderFromInjectedBodyBlock, extractSender *)

\* the character class . (no line terminator) and the class [^\n]
IsDot(c) == c \notin {"\n", "\r"}
NotNewline(c) == c # "\n"

KwFrom   == <<"f","r","o","m",":">>
KwSender == <<"s","e","n","d","e","r",":">>
\* the keywords of the lookahead of the run-together pattern, as lists of words
NextFieldKeys == {<< <<"t","o",":">> >>, << <<"c","c",":">> >>, << <<"b","c","c",":">> >>,
                  << <<"r","e","p","l","y">>, <<"r","e","q","u","i","r","e","d",":">> >>,
                  << <<"d","a","t","e",":">> >>}

\* w1\s*w2... matches t at position i (the i flag)
RECURSIVE MatchWordsAt(_, _, _)
MatchWordsAt(t, words, i) ==
    IF words = <<>> THEN TRUE
    ELSE /\ MatchAtI(t, words[1], i)
         /\ MatchWordsAt(t, Tail(words), SkipSpaces(t, i + Len(words[1])))

\* Where the capture after `Key:\s*` starts when Key: ends before position a: \s* is
\* greedy and gives back white space only when nothing else is left to capture.
\* 0: no capture.  class is "dot" or "notnl"
InClass(c, class) == IF class = "dot" THEN IsDot(c) ELSE NotNewline(c)
CaptureStart(text, a, class) ==
    IF SkipSpaces(text, a) <= Len(text) THEN SkipSpaces(text, a)
    ELSE IF \E r \in a..Len(text) : InClass(text[r], class)
         THEN CHOOSE r \in a..Len(text) :
                  InClass(text[r], class) /\ \A k \in (r + 1)..Len(text) : ~InClass(text[k], class)
         ELSE 0

\* the last position of the greedy run of class characters that starts at r
RunEnd(text, r, class) ==
    IF \A k \in r..Len(text) : InClass(text[k], class) THEN Len(text)
    ELSE (CHOOSE k \in r..Len(text) :
              ~InClass(text[k], class) /\ \A j \in r..(k - 1) : InClass(text[j], class)) - 1

NoMatch == [found |-> FALSE, value |-> <<>>]
Found(v) == [found |-> TRUE, value |-> v]

\* text.match(/(?:^|\n)\s*Key:\s*([^\n]+)/i): Key: is the first thing on a line
LineStartAt(text, q) ==
    \/ \A k \in 1..(q - 1) : IsSpace(text[k])
    \/ \E p \in 1..(q - 1) : text[p] = "\n" /\ \A k \in p..(q - 1) : IsSpace(text[k])

Least(S) == CHOOSE q \in S : \A h \in S : q <= h
Greatest(S) == CHOOSE q \in S : \A h \in S : h <= q

\* the capture of class characters that starts at r
CaptureFrom(text, r, class) == Found(SubSeq(text, r, RunEnd(text, r, class)))

LineKeyHits(text, key) ==
    {q \in 1..Len(text) :
         /\ MatchAtI(text, key, q)
         /\ LineStartAt(text, q)
         /\ CaptureStart(text, q + Len(key), "notnl") # 0}

MatchLineKey(text, key) ==
    IF LineKeyHits(text, key) = {} THEN NoMatch
    ELSE CaptureFrom(text, CaptureStart(text, Least(LineKeyHits(text, key)) + Len(key), "notnl"),
                     "notnl")

\* the lookahead (?=\s+To:|\s+Cc:|\s+Bcc:|\s+Reply\s*Required:|\s+Date:|\n|$) at i
NextFieldAt(text, i) ==
    \/ i > Len(text)
    \/ text[i] = "\n"
    \/ /\ IsSpace(text[i])
       /\ \E key \in NextFieldKeys : MatchWordsAt(text, key, SkipSpaces(text, i))

\* text.match(/From:\s*(.+?)(?=...)/i).  The captures possible when From: is at q:
\* <<r, e>>, with \s* ending before r and the lookahead holding after e
RunCaptures(text, q) ==
    {c \in ((q + 5)..SkipSpaces(text, q + 5)) \X (1..Len(text)) :
         /\ c[1] <= c[2]
         /\ \A k \in c[1]..c[2] : IsDot(text[k])
         /\ NextFieldAt(text, c[2] + 1)}

\* \s* is greedy: the largest r; .+? is lazy: the smallest e for that r
RunCapture(text, caps) ==
    Found(SubSeq(text, Greatest({c[1] : c \in caps}),
                 Least({c[2] : c \in {d \in caps : d[1] = Greatest({x[1] : x \in caps})}})))

RunHits(text) == {q \in 1..Len(text) : MatchAtI(text, KwFrom, q) /\ RunCaptures(text, q) # {}}

MatchRunTogether(text) ==
    IF RunHits(text) = {} THEN NoMatch
    ELSE RunCapture(text, RunCaptures(text, Least(RunHits(text))))

\* lines 447-457: the first of the three matches
PickSender(m1, m2, m3) ==
    IF m1.found THEN Trim(m1.value)
    ELSE IF m2.found THEN Trim(m2.value)
    ELSE IF m3.found THEN Trim(m3.value)
    ELSE <<>>

SenderInText(text) ==
    PickSender(MatchLineKey(text, KwFrom), MatchRunTogether(text), MatchLineKey(text, KwSender))

ExtractSenderFromInjectedBodyBlock(rawText) ==
    IF rawText = <<>> THEN <<>> ELSE SenderInText(Trim(ReplaceCRLF(rawText)))

\* headers.match(/^Key:\s*(.+)$/im)?.[1]?.trim(), "" when there is no match
HeaderLineStart(text, q) == q = 1 \/ text[q - 1] \in {"\n", "\r"}
HeaderKeyHits(text, key) ==
    {q \in 1..Len(text) :
         /\ MatchAtI(text, key, q)
         /\ HeaderLineStart(text, q)
         /\ CaptureStart(text, q + Len(key), "dot") # 0}

MatchHeaderKey(text, key) ==
    IF HeaderKeyHits(text, key) = {} THEN <<>>
    ELSE Trim(CaptureFrom(text, CaptureStart(text, Least(HeaderKeyHits(text, key)) + Len(key), "dot"),
                          "dot").value)

\* the value of a || b || ... over strings: the first that is not empty
RECURSIVE FirstTruthy(_)
FirstTruthy(ss) ==
    IF ss = <<>> THEN <<>>
    ELSE IF ss[1] # <<>> THEN ss[1] ELSE FirstTruthy(Tail(ss))

DirectFields(e) ==
    <<e.senderEmailAddress, e.senderName, e.sentRepresentingEmailAddress,
      e.sentRepresentingName, e.senderSmtpAddress, e.sentRepresentingSmtpAddress>>
HeaderCandidates(e) ==
    <<e.transportMessageHeaders, e.internetMessageHeaders, e.messageHeaders,
      e.headers, e.header>>

\* fromLine of one decoded header candidate
FromLineIn(headers) ==
    IF headers = <<>> THEN <<>>
    ELSE FirstTruthy(<<MatchHeaderKey(headers, KwFrom), MatchHeaderKey(headers, KwSender)>>)
FromLine(hc) == FromLineIn(DecodeText(hc))

\* bodyForParse, htmlForParse
ForParse(bodyRaw) ==
    IF bodyRaw # <<>> /\ LooksLikeHtml(bodyRaw) THEN HtmlToPlainText(bodyRaw) ELSE bodyRaw
BodyForParse(e) == ForParse(DecodeText(e.body))
HtmlToParse(htmlRaw) == IF htmlRaw # <<>> THEN HtmlToPlainText(htmlRaw) ELSE <<>>
HtmlForParse(e) == HtmlToParse(DecodeText(e.bodyHTML))

\* the order of lines 482, 497 and 513-517
PickFirstSender(direct, fromLine, from1, from2) ==
    IF Trim(direct) # <<>> THEN Trim(direct)
    ELSE IF fromLine # <<>> THEN fromLine
    ELSE IF from1 # <<>> THEN from1
    ELSE from2

ExtractSender(e) ==
    PickFirstSender(
        FirstTruthy([i \in 1..6 |-> DecodeText(DirectFields(e)[i])]),
        FirstTruthy([i \in 1..5 |-> FromLine(HeaderCandidates(e)[i])]),
        ExtractSenderFromInjectedBodyBlock(BodyForParse(e)),
        ExtractSenderFromInjectedBodyBlock(HtmlForParse(e)))

-----------------------------------------------------------------------------
(* safeBasename and the stored name of an attachment *)

MaxBasename == 180

PathSeparators == {"\\", "/"}
HostileChars   == {":", "*", "?", "\"", "<", ">", "|"}
\* [\u0000-\u001F]
ControlChars   == {"^@", "^A", "\t", "\n", "\r"}

ReplaceChars(s, set, by) == [i \in 1..Len(s) |-> IF s[i] \in set THEN by ELSE s[i]]

SafeBasenameNoColon(name) ==
    LET trimmed == IF Trim(name) = <<>>
                   THEN <<"a","t","t","a","c","h","m","e","n","t">>
                   ELSE Trim(name)
    IN  Slice0(SelectChars(ReplaceChars(trimmed, PathSeparators, "_"), ControlChars),
               MaxBasename)

SafeBasename(name) ==
    LET trimmed == IF Trim(name) = <<>>
                   THEN <<"a","t","t","a","c","h","m","e","n","t">>
                   ELSE Trim(name)
    IN  Slice0(SelectChars(ReplaceChars(ReplaceChars(trimmed, PathSeparators, "_"),
                                        HostileChars, "_"),
                           ControlChars),
               MaxBasename)


\* String(n), n >= 0
RECURSIVE NumStr(_)
NumStr(n) == IF n < 10 THEN <<Digits[n + 1]>> ELSE NumStr(n \div 10) \o <<Digits[(n % 10) + 1]>>

\* String.prototype.padStart(width, "0")
PadStart0(s, width) == Repeat("0", Max(0, width - Len(s))) \o s

\* the clock readings of one run: 0 .. MaxTick
MaxTick == 1

\* Date.now() is Epoch + now milliseconds; its 13 decimal digits
EpochDigits == <<"1","7","6","2","3","0","0","0","0","0">>
NowStr(t) == EpochDigits \o PadStart0(NumStr(t), 3)

\* `${String(i).padStart(3, "0")}-${Date.now()}-${originalName}`
StoredName(i, t, originalName) ==
    PadStart0(NumStr(i), 3) \o <<"-">> \o NowStr(t) \o <<"-">> \o originalName

\* `${emails.length + 1}_${Date.now()}`
EmailKey(n, t) == NumStr(n + 1) \o <<"_">> \o NowStr(t)

\* path.join("_pst", emailKey, storedName): the components, in order
RelPath(emailKey, storedName) == <<<<"_","p","s","t">>, emailKey, storedName>>

NoRef == [kind |-> "none"]

\* originalNameRaw, line 549
OriginalNameRaw(att, i) ==
    FirstTruthy(<<DecodeText(att.longFilename), DecodeText(att.filename),
                  <<"a","t","t","a","c","h","m","e","n","t","_">> \o NumStr(i)>>)

\* lines 556-575 for a stored name and its path
ExtractNamed(fault, i, emailKey, originalNameRaw, storedName, relPath) ==
    CASE fault = "throws" ->
             [kind |-> "error", wrote |-> {},
              error |-> [kind |-> "attachment", emailKey |-> emailKey, index |-> i]]
      [] fault = "writefails" ->
             [kind |-> "error", wrote |-> {relPath},
              error |-> [kind |-> "attachment", emailKey |-> emailKey, index |-> i]]
      [] fault = "nostream" ->
             [kind |-> "error", wrote |-> {},
              error |-> [kind |-> "nostream", emailKey |-> emailKey, index |-> i,
                         name |-> originalNameRaw]]
      [] OTHER ->
             [kind |-> "saved", wrote |-> {relPath},
              ref |-> [originalName |-> originalNameRaw,
                       storedName |-> storedName,
                       relPath |-> relPath]]

ExtractStored(fault, i, emailKey, originalNameRaw, storedName) ==
    ExtractNamed(fault, i, emailKey, originalNameRaw, storedName, RelPath(emailKey, storedName))

\* One iteration of the loop of extractAttachments over attachment i, read at
\* time t.  att.fault says what the archive and the disk do for it: "none",
\* "nostream" (no fileInputStream), "throws" (getAttachment throws) or "writefails"
\* (the file is opened and reading the stream throws).
ExtractOne(att, i, t, emailKey) ==
    ExtractStored(att.fault, i, emailKey, OriginalNameRaw(att, i),
                  StoredName(i, t, SafeBasename(OriginalNameRaw(att, i))))

\* what the loop of lines 546-579 returns and records, given the outcome of each
\* iteration
Collect(ones) ==
    [out    |-> Flatten([i \in 1..Len(ones) |->
                    IF ones[i].kind = "saved" THEN <<ones[i].ref>> ELSE <<>>]),
     errors |-> Flatten([i \in 1..Len(ones) |->
                    IF ones[i].kind = "error" THEN <<ones[i].error>> ELSE <<>>]),
     wrote  |-> UNION {ones[i].wrote : i \in 1..Len(ones)},
     saved  |-> Flatten([i \in 1..Len(ones) |->
                    IF ones[i].kind = "saved" THEN <<ones[i].ref.relPath>> ELSE <<>>]),
     threw  |-> FALSE]

NoAttachments == [out |-> <<>>, errors |-> <<>>, wrote |-> {}, saved |-> <<>>, threw |-> FALSE]

\* the iterations up to the first that fails
UntilFailure(ones) ==
    IF \A i \in 1..Len(ones) : ones[i].kind = "saved" THEN ones
    ELSE SubSeq(ones, 1, CHOOSE i \in 1..Len(ones) :
                             ones[i].kind # "saved" /\ \A j \in 1..(i - 1) : ones[j].kind = "saved")

\* mutant: the loop of extractAttachments gives up at the first attachment that fails
ExtractAttachmentsUntilFailure(atts, times, opts, dir, emailKey) ==
    IF ~opts.saveAttachments \/ opts.attachmentsDir = <<>> THEN NoAttachments
    ELSE IF dir = "rootdir" THEN [NoAttachments EXCEPT !.errors = <<[kind |-> "attachmentsDir"]>>]
    ELSE IF atts = <<>> THEN NoAttachments
    ELSE IF dir = "maildir" THEN [NoAttachments EXCEPT !.threw = TRUE]
    ELSE Collect(UntilFailure([i \in 1..Len(atts) |->
                                   ExtractOne(atts[i], i - 1, times[i], emailKey)]))

\* extractAttachments(email, opts, errors, emailKey) for a message with the attachments
\* atts, attachment i read at times[i].  dir says what ensureDir does: "none",
\* "rootdir" (creating attachmentsDir throws) or "maildir" (creating _pst/<emailKey>
\* throws, which extractAttachments does not catch).
ExtractAttachments(atts, times, opts, dir, emailKey) ==
    IF ~opts.saveAttachments \/ opts.attachmentsDir = <<>> THEN NoAttachments
    ELSE IF dir = "rootdir" THEN [NoAttachments EXCEPT !.errors = <<[kind |-> "attachmentsDir"]>>]
    ELSE IF atts = <<>> THEN NoAttachments
    ELSE IF dir = "maildir" THEN [NoAttachments EXCEPT !.threw = TRUE]
    ELSE Collect([i \in 1..Len(atts) |-> ExtractOne(atts[i], i - 1, times[i], emailKey)])

-----------------------------------------------------------------------------
(* processFolder, parsePSTFile *)

MaxFolders == 3
MaxEntries == 3
MaxAttachments == 2

\* formatDate: an absent date is "", any other its ISO form (kept as given)
FormatDate(date) == date

GetImportance(importance) ==
    CASE importance = 2 -> "high"
      [] importance = 0 -> "low"
      [] OTHER          -> "normal"

\* the placeholder subject of line 602 (Korean for "(no subject)"), as one token
NoSubject == <<"(no subject)">>
Undefined == <<"undefined">>

\* decodeText(folder.displayName) || undefined
OrUndefined(text) == IF text = <<>> THEN Undefined ELSE text
Label(displayName) == OrUndefined(DecodeText(displayName))

\* the ParsedEmail built at lines 601-609
ParsedEmail(msg, displayName, attachments) ==
    [subject     |-> FirstTruthy(<<DecodeText(msg.subject), NoSubject>>),
     sender      |-> ExtractSender(msg),
     date        |-> FormatDate(msg.messageDeliveryTime),
     body        |-> ExtractBody(msg),
     importance  |-> GetImportance(msg.importance),
     label       |-> Label(displayName),
     attachments |-> attachments]

\* mutant: the body of the loop records what it has of a message whose parsing throws
RecordEmailKeepPartial(msg, displayName, done, parse, att) ==
    [emails |-> Append(done.emails, ParsedEmail(msg, displayName, att.out)),
     errors |-> IF att.threw \/ parse = "throws"
                THEN (done.errors \o att.errors) \o <<[kind |-> "email"]>>
                ELSE done.errors \o att.errors,
     files  |-> done.files \cup att.wrote]

\* lines 601-612 once extractAttachments has returned att (or thrown)
RecordEmail(msg, displayName, done, parse, att) ==
    IF att.threw \/ parse = "throws"
    THEN [emails |-> done.emails,
          errors |-> (done.errors \o att.errors) \o <<[kind |-> "email"]>>,
          files  |-> done.files \cup att.wrote]
    ELSE [emails |-> Append(done.emails, ParsedEmail(msg, displayName, att.out)),
          errors |-> done.errors \o att.errors,
          files  |-> done.files \cup att.wrote]

\* The body of the while loop of processFolder (lines 596-613) for the message msg of
\* a folder named displayName.  done holds emails, errors and files so far; env says
\* what the clock, the disk and the archive do: keyTime and times (Date.now() at line
\* 598 and at line 556), dir (see ExtractAttachments), parse ("ok", or "throws" when
\* reading a field of the message throws).
ProcessEmail(msg, displayName, done, opts, env) ==
    RecordEmail(msg, displayName, done, env.parse,
                ExtractAttachments(msg.attachments, env.times, opts, env.dir,
                                   EmailKey(Len(done.emails), env.keyTime)))

\* mutant: a result whose totalCount counts the errors as well
ParseResultCountingErrors(es, errs) ==
    [emails |-> es, totalCount |-> Len(es) + Len(errs), errorCount |-> Len(errs), errors |-> errs]

\* the PSTParseResult returned at lines 636-641
ParseResult(es, errs) ==
    [emails |-> es, totalCount |-> Len(es), errorCount |-> Len(errs), errors |-> errs]

\* ---- the archive: folder f has the subfolders 2f and 2f+1 that exist

SubFolders(a, f) ==
    IF 2 * f + 1 <= a.folders THEN <<2 * f, 2 * f + 1>>
    ELSE IF 2 * f <= a.folders THEN <<2 * f>>
    ELSE <<>>
HasSubfolders(a, f) == SubFolders(a, f) # <<>>
ContentCount(a, f) == a.count[f]
DisplayName(a, f) == IF f = 1 THEN a.rootName ELSE <<"B","o","x">> \o NumStr(f)
Entries(a) == {e \in (1..a.folders) \X (1..MaxEntries) : e[2] <= a.count[e[1]]}

\* attachment i (from 1) of any message: a hostile long name, a short name, no name
AttachmentOf(i, fault) ==
    [longFilename |-> IF i = 1 THEN <<".",".","/","a",":","b","?",".","p","d","f">> ELSE <<>>,
     filename     |-> IF i <= 2 THEN <<"r",".","t","x","t">> \o NumStr(i) ELSE <<>>,
     fault        |-> fault]

\* entry k of folder f as a PSTMessage; faults: what each of its attachments does
EntryMessage(a, f, k, faults) ==
    [subject                      |-> IF k = 2 THEN <<>> ELSE <<"R","e"," ">> \o NumStr(f) \o <<".">> \o NumStr(k),
     senderEmailAddress           |-> <<>>,
     senderName                   |-> IF k = 1 THEN <<>> ELSE <<"u">> \o NumStr(k),
     sentRepresentingEmailAddress |-> <<>>,
     sentRepresentingName         |-> <<>>,
     senderSmtpAddress            |-> <<>>,
     sentRepresentingSmtpAddress  |-> <<>>,
     transportMessageHeaders      |-> <<>>,
     internetMessageHeaders       |-> <<>>,
     messageHeaders               |-> <<>>,
     headers                      |-> <<>>,
     header                       |-> <<>>,
     body                         |-> IF k = 1
                                      THEN <<"F","r","o","m",":"," ","u","1","\n","T","o",":"," ","x","\n","D","a","t","e",":"," ","1","\n","\n","N","o","t","e"," ">> \o NumStr(f) \o <<".">> \o NumStr(k)
                                      ELSE <<"N","o","t","e"," ">> \o NumStr(f) \o <<".">> \o NumStr(k),
     bodyHTML                     |-> <<>>,
     messageDeliveryTime          |-> IF k = 3 THEN <<>> ELSE <<"2","0","2","4","-","0","1","-","0","1","T","0","0",":","0","0",":","0","0",".","0","0","0","Z">>,
     importance                   |-> k % 3,
     attachments                  |-> [i \in 1..Len(faults) |-> AttachmentOf(i, faults[i])]]

\* the text by which the message of entry <<f, k>> is known in emails: its body
EntryBody(f, k) == <<"N","o","t","e"," ">> \o NumStr(f) \o <<".">> \o NumStr(k)

\* ---- the calls in progress

Most(st) == SubSeq(st, 1, Len(st) - 1)
Top(st) == st[Len(st)]

\* the for loop over the subfolders ends when none is left (line 588)
Settle(a, fr) ==
    IF fr.phase = "subs" /\ fr.next > Len(SubFolders(a, fr.folder))
    THEN [fr EXCEPT !.phase = "entries", !.next = 0]
    ELSE fr

\* processFolder is entered: line 586 or, without subfolders, line 593
Enter(a, f) ==
    [folder |-> f, phase |-> IF HasSubfolders(a, f) THEN "enter" ELSE "entries", next |-> 0]

\* a call that reaches line 593 with contentCount = 0 returns at once
RECURSIVE Resume(_, _)
Resume(a, st) ==
    IF st # <<>> /\ Top(st).phase = "entries" /\ Top(st).next = 0
                 /\ ContentCount(a, Top(st).folder) = 0
    THEN Resume(a, Most(st))
    ELSE st

FolderError(a, f) == [kind |-> "folder", name |-> DisplayName(a, f)]

NoVisit == [status |-> "pending"]
NoResult == [emails |-> <<>>, totalCount |-> -1, errorCount |-> -1, errors |-> <<>>]

\* ---- what the clock, the disk and the archive may do while one entry is processed

AttFaults == {"none", "nostream", "throws", "writefails"}

RECURSIVE Rising(_, _, _)
\* the non-decreasing sequences of n clock readings from lo to hi
Rising(n, lo, hi) ==
    IF n = 0 THEN {<<>>}
    ELSE UNION {{<<t>> \o r : r \in Rising(n - 1, t, hi)} : t \in lo..hi}

Quiet(n, t) ==
    [keyTime |-> t, times |-> [i \in 1..n |-> t], dir |-> "none",
     faults |-> [i \in 1..n |-> "none"]]

Environments(a, n, t) ==
    IF ~a.opts.saveAttachments \/ a.opts.attachmentsDir = <<>>
    THEN {[Quiet(n, t) EXCEPT !.faults = f] : f \in [1..n -> {"none"}]}
    ELSE UNION {
           {[keyTime |-> kt, times |-> ts, dir |-> "none", faults |-> f] :
                ts \in Rising(n, kt, MaxTick), f \in [1..n -> AttFaults]}
           \cup {[Quiet(n, kt) EXCEPT !.dir = d] :
                d \in IF n > 0 THEN {"rootdir", "maildir"} ELSE {"rootdir"}}
           : kt \in t..MaxTick}

LastReading(env, a) ==
    IF a.opts.saveAttachments /\ a.opts.attachmentsDir # <<>> /\ env.dir = "none"
       /\ Len(env.times) > 0
    THEN env.times[Len(env.times)]
    ELSE env.keyTime

\* ---- the steps of parsePSTFile

\* new PSTFile(filePath), getRootFolder() and the call of processFolder on the root
OpenPST ==
    /\ pc = "start"
    /\ \/ /\ pc' = "walk"
          /\ stack' = Resume(archive, <<Enter(archive, 1)>>)
          /\ UNCHANGED errors
       \/ /\ pc' = "unopened"
          /\ errors' = Append(errors, [kind |-> "open"])
          /\ UNCHANGED stack
    /\ UNCHANGED <<archive, emails, files, visit, result, now, otherVars>>

\* folder.getSubFolders(), line 587
GetSubFolders ==
    /\ pc = "walk" /\ stack # <<>> /\ Top(stack).phase = "enter"
    /\ \/ /\ stack' = Append(Most(stack), [Top(stack) EXCEPT !.phase = "subs", !.next = 1])
          /\ UNCHANGED errors
       \/ /\ errors' = Append(errors, FolderError(archive, Top(stack).folder))
          /\ stack' = Resume(archive, Most(stack))
    /\ UNCHANGED <<pc, archive, emails, files, visit, result, now, otherVars>>

\* processFolder(subFolder, ...), line 589
ProcessSubFolder ==
    /\ pc = "walk" /\ stack # <<>> /\ Top(stack).phase = "subs"
    /\ LET fr == Top(stack)
           sub == SubFolders(archive, fr.folder)[fr.next]
       IN  stack' = Resume(archive,
                        Append(Append(Most(stack), Settle(archive, [fr EXCEPT !.next = @ + 1])),
                               Enter(archive, sub)))
    /\ UNCHANGED <<pc, archive, emails, errors, files, visit, result, now, otherVars>>

\* folder.getNextChild(), lines 594 and 614
GetNextChild ==
    /\ pc = "walk" /\ stack # <<>> /\ Top(stack).phase = "entries"
    /\ LET fr == Top(stack)
           k == fr.next + 1
       IN  IF k > ContentCount(archive, fr.folder)
           THEN /\ stack' = Resume(archive, Most(stack))
                /\ UNCHANGED <<errors, visit>>
           ELSE \/ /\ stack' = Append(Most(stack), [fr EXCEPT !.phase = "parse", !.next = k])
                   /\ UNCHANGED <<errors, visit>>
                \/ /\ errors' = Append(errors, FolderError(archive, fr.folder))
                   /\ visit' = [visit EXCEPT ![<<fr.folder, k>>] = [status |-> "unreadable"]]
                   /\ stack' = Resume(archive, Most(stack))
    /\ UNCHANGED <<pc, archive, emails, files, result, now, otherVars>>

\* the body of the while loop for the message in hand, lines 596-613
ParseEntry ==
    /\ pc = "walk" /\ stack # <<>> /\ Top(stack).phase = "parse"
    /\ LET fr == Top(stack)
           n == archive.natt[<<fr.folder, fr.next>>]
       IN  \E env \in Environments(archive, n, now), parse \in {"ok", "throws"} :
               LET e == [keyTime |-> env.keyTime, times |-> env.times, dir |-> env.dir,
                         parse |-> parse]
                   msg == EntryMessage(archive, fr.folder, fr.next, env.faults)
                   r == ProcessEmail(msg, DisplayName(archive, fr.folder),
                                     [emails |-> emails, errors |-> errors, files |-> files],
                                     archive.opts, e)
               IN  /\ emails' = r.emails
                   /\ errors' = r.errors
                   /\ files' = r.files
                   /\ now' = LastReading(env, archive)
                   /\ visit' = [visit EXCEPT ![<<fr.folder, fr.next>>] =
                                    [status |-> "processed", parse |-> parse, dir |-> env.dir,
                                     faults |-> env.faults,
                                     emailKey |-> EmailKey(Len(emails), env.keyTime),
                                     saved |-> ExtractAttachments(
                                                   msg.attachments, env.times, archive.opts,
                                                   env.dir,
                                                   EmailKey(Len(emails), env.keyTime)).saved]]
                   /\ stack' = Append(Most(stack), [fr EXCEPT !.phase = "entries"])
    /\ UNCHANGED <<pc, archive, result, otherVars>>

\* return { emails, totalCount, errorCount, errors }, lines 636-641
Return ==
    /\ \/ pc = "walk" /\ stack = <<>> /\ pc' = "done"
       \/ pc = "unopened" /\ pc' = "aborted"
    /\ result' = ParseResult(emails, errors)
    /\ UNCHANGED <<archive, stack, emails, errors, files, visit, now, otherVars>>

\* ---- the archives parsed

RECURSIVE SumTo(_, _)
SumTo(c, n) == IF n = 0 THEN 0 ELSE c[n] + SumTo(c, n - 1)

\* entries per folder, at most MaxEntries in all
Counts(n) == {c \in [1..n -> 0..MaxEntries] : SumTo(c, n) <= MaxEntries}

DefaultOptions == [saveAttachments |-> FALSE, attachmentsDir |-> <<>>]
SaveOptions == [saveAttachments |-> TRUE, attachmentsDir |-> <<"a","t","t">>]

\* parsePSTFile(filePath): any tree of up to MaxFolders folders, the options left out
Archives ==
    UNION {{[folders |-> n, count |-> c, rootName |-> r, opts |-> DefaultOptions,
             natt |-> [e \in (1..n) \X (1..MaxEntries) |-> 1]] :
                c \in Counts(n), r \in {<<>>, <<"T","o","p">>}} : n \in 1..MaxFolders}

RECURSIVE SumOver(_, _)
SumOver(f, S) == IF S = {} THEN 0 ELSE LET x == CHOOSE x \in S : TRUE IN f[x] + SumOver(f, S \ {x})

\* parsePSTFile(filePath, {saveAttachments: true, attachmentsDir}): a root with one
\* subfolder, one entry or two, at most MaxAttachments attachments in all
SavingArchives ==
    {[folders |-> 2, count |-> c, rootName |-> <<>>, opts |-> SaveOptions, natt |-> m] :
        c \in {<<0, 1>>, <<1, 1>>},
        m \in {m \in [(1..2) \X (1..MaxEntries) -> 0..MaxAttachments] :
                   /\ SumOver(m, DOMAIN m) <= MaxAttachments
                   /\ \A e \in DOMAIN m : e[2] > 1 => m[e] = 0}}

ParseIdle ==
    /\ pc = "idle" /\ stack = <<>> /\ emails = <<>> /\ errors = <<>> /\ files = {}
    /\ archive = [folders |-> 0] /\ visit = <<>> /\ result = NoResult

ParseStart(a) ==
    /\ pc = "start" /\ stack = <<>> /\ emails = <<>> /\ errors = <<>> /\ files = {}
    /\ archive = a
    /\ visit = [e \in Entries(a) |-> NoVisit]
    /\ result = NoResult
    /\ now = 0


-----------------------------------------------------------------------------
(* local-storage: tokenize, scoreText, LocalSQLiteStorage.searchEmails *)

\* (query || "").trim().split(/\s+/).filter((t) => t.length > 0)
Tokenize(query) ==
    Flatten([i \in 1..Len(query) |->
        IF ~IsSpace(query[i]) /\ (i = 1 \/ IsSpace(query[i - 1]))
        THEN <<SubSeq(query, i, SkipToSpace(query, i) - 1)>>
        ELSE <<>>])

\* s.replace(/[.*+?^${}()|[\]\\]/g, "\\$&")
RegExpSpecials == {".", "*", "+", "?", "^", "$", "{", "}", "(", ")", "|", "[", "]", "\\"}
EscapeRegExp(s) ==
    Flatten([i \in 1..Len(s) |-> IF s[i] \in RegExpSpecials THEN <<"\\", s[i]>> ELSE <<s[i]>>])

\* new RegExp(pattern): the atoms of a pattern made of characters, escaped characters
\* and dots.  A character is escaped when an odd number of backslashes stands before it
BackslashesBefore(p, i) ==
    IF \A j \in 1..(i - 1) : p[j] = "\\" THEN i - 1
    ELSE i - 1 - (CHOOSE j \in 1..(i - 1) :
                      p[j] # "\\" /\ \A k \in (j + 1)..(i - 1) : p[k] = "\\")
RegExpAtoms(p) ==
    Flatten([i \in 1..Len(p) |->
        IF BackslashesBefore(p, i) % 2 = 1 THEN <<[any |-> FALSE, char |-> p[i]]>>
        ELSE IF p[i] = "\\" THEN <<>>
        ELSE IF p[i] = "." THEN <<[any |-> TRUE, char |-> "."]>>
        ELSE <<[any |-> FALSE, char |-> p[i]]>>])

AtomsMatchAt(text, atoms, i) ==
    /\ i + Len(atoms) - 1 <= Len(text)
    /\ \A k \in 1..Len(atoms) :
           IF atoms[k].any THEN text[i + k - 1] \notin {"\n", "\r"}
           ELSE text[i + k - 1] = atoms[k].char

\* lower.match(regex) with the g flag: the matches, left to right, none overlapping
RECURSIVE CountMatches(_, _, _)
CountMatches(text, atoms, from) ==
    IF \A j \in from..Len(text) : ~AtomsMatchAt(text, atoms, j) THEN 0
    ELSE 1 + CountMatches(text, atoms,
                          Len(atoms) + CHOOSE j \in from..Len(text) :
                              /\ AtomsMatchAt(text, atoms, j)
                              /\ \A k \in from..(j - 1) : ~AtomsMatchAt(text, atoms, k))

\* the matches of one token of scoreText, lines 626-632
TokenMatches(lower, token) ==
    IF token = <<>> THEN 0 ELSE CountMatches(lower, RegExpAtoms(token), 1)

RECURSIVE SumSeq(_)
SumSeq(ns) == IF ns = <<>> THEN 0 ELSE ns[1] + SumSeq(Tail(ns))

ScoreText(text, tokens) ==
    IF text = <<>> \/ tokens = <<>> THEN 0
    ELSE SumSeq([k \in 1..Len(tokens) |->
                    TokenMatches(ToLower(text), EscapeRegExp(ToLower(tokens[k])))])

\* ---- the query of searchEmails

LikeLimit == 12
RowLimit == 500
Null == <<"NULL">>

\* tokens.map((t) => t.trim()).filter((t) => t.length >= 2).slice(0, 12)
LikeTokens(tokens) ==
    Slice0(SelectSeq([k \in 1..Len(tokens) |-> Trim(tokens[k])], LAMBDA t : Len(t) >= 2),
           LikeLimit)

\* column LIKE '%token%': SQLite compares ASCII letters without case and reads "_" in
\* the token as any one character (the tokens of the model hold no "%"); NULL matches
\* nothing
Like(column, token) ==
    /\ column # Null
    /\ \E i \in 1..(Len(column) - Len(token) + 1) :
           \A k \in 1..Len(token) :
               token[k] = "_" \/ ToLowerChar(column[i + k - 1]) = ToLowerChar(token[k])

\* the columns of email_attachments in the row LEFT JOIN makes for an email without
\* attachments
NoJoin == [email_id |-> 0, filename |-> Null, original_name |-> Null, extracted_text |-> Null]

\* the WHERE clause for one row of emails LEFT JOIN email_attachments
WhereRow(e, a, likeTokens) ==
    \E k \in 1..Len(likeTokens) :
        \/ Like(e.subject, likeTokens[k]) \/ Like(e.body, likeTokens[k])
        \/ Like(e.sender, likeTokens[k]) \/ Like(e.date, likeTokens[k])
        \/ Like(a.original_name, likeTokens[k])
        \/ Like(a.filename, likeTokens[k])
        \/ Like(a.extracted_text, likeTokens[k])

\* the joined rows of email id, in the id order of email_attachments
JoinRows(as, id) ==
    IF \E j \in 1..Len(as) : as[j].email_id = id
    THEN SelectSeq(as, LAMBDA a : a.email_id = id)
    ELSE <<NoJoin>>

\* the joined rows of email id that pass the WHERE clause
PassingRows(es, as, id, likeTokens) ==
    SelectSeq(JoinRows(as, id), LAMBDA a : WhereRow(es[id], a, likeTokens))

\* GROUP_CONCAT(COALESCE(a.extracted_text, ''), '\n\n') over the rows of a group
AttachmentsText(rows) ==
    Join([j \in 1..Len(rows) |->
             IF rows[j].extracted_text = Null THEN <<>> ELSE rows[j].extracted_text],
         <<"\n", "\n">>)

GroupRow(e, id, rows) ==
    IF rows = <<>> THEN <<>>
    ELSE <<[id |-> id, subject |-> e.subject, sender |-> e.sender, date |-> e.date,
            body |-> e.body, attachments_text |-> AttachmentsText(rows)]>>

\* SELECT ... WHERE ... GROUP BY e.id LIMIT 500: one row per email with a joined row
\* that passes, the table walked in id order
SelectRows(es, as, likeTokens) ==
    Slice0(Flatten([id \in 1..Len(es) |->
                       GroupRow(es[id], id, PassingRows(es, as, id, likeTokens))]),
           RowLimit)

\* `${email.subject} ${email.body} ${email.sender} ${email.date} ${attText}`
TextToScore(row) ==
    row.subject \o <<" ">> \o row.body \o <<" ">> \o row.sender \o <<" ">> \o row.date
        \o <<" ">> \o row.attachments_text

\* the SearchResult of one row, lines 1065-1079
Scored(row, tokens) ==
    [mailId  |-> NumStr(row.id),
     subject |-> IF row.subject = <<>> THEN NoSubject ELSE row.subject,
     score   |-> ScoreText(TextToScore(row), tokens),
     sender  |-> IF row.sender = <<>> THEN Null ELSE row.sender,
     date    |-> IF row.date = <<>> THEN Null ELSE row.date,
     body    |-> row.body]

\* mutant: the results left in the order of the rows
KeepRowOrder(scored) == scored

\* scored.sort((a, b) => b.score - a.score): a stable sort, the higher score first
SortByScore(scored) ==
    [r \in 1..Len(scored) |->
        scored[CHOOSE i \in 1..Len(scored) :
                   r = 1 + Cardinality({j \in 1..Len(scored) :
                                            \/ scored[j].score > scored[i].score
                                            \/ scored[j].score = scored[i].score /\ j < i})]]

\* mutant: every scored row returned, the zero scores and the rows past topK too
RankRowsKeepAll(rows, tokens, topK) ==
    SortByScore([i \in 1..Len(rows) |-> Scored(rows[i], tokens)])

RankRows(rows, tokens, topK) ==
    Slice0(SortByScore(SelectSeq([i \in 1..Len(rows) |-> Scored(rows[i], tokens)],
                                 LAMBDA r : r.score > 0)),
           Max(1, topK))

SearchEmailsResult(es, as, query, topK) ==
    IF Tokenize(query) = <<>> \/ LikeTokens(Tokenize(query)) = <<>> THEN <<>>
    ELSE RankRows(SelectRows(es, as, LikeTokens(Tokenize(query))), Tokenize(query), topK)

-----------------------------------------------------------------------------
(* The messages handed to extractSender *)

NoSender == [done |-> FALSE, value |-> <<>>, fromBody |-> <<>>]

DirectNames == <<"senderEmailAddress", "senderName", "sentRepresentingEmailAddress",
                 "sentRepresentingName", "senderSmtpAddress", "sentRepresentingSmtpAddress">>
HeaderNames == <<"transportMessageHeaders", "internetMessageHeaders", "messageHeaders",
                 "headers", "header">>

\* a direct field is absent, white space only, or an address that names the field
DirectValue(i, kind) ==
    CASE kind = "absent" -> <<>>
      [] kind = "blank"  -> <<" ", "\t">>
      [] OTHER           -> <<"d">> \o NumStr(i) \o <<"@","x",".","i","o"," ">>

\* a header blob is absent, has a From: line, has only a Sender: line, or has neither
HeaderValue(j, kind) ==
    CASE kind = "absent" -> <<>>
      [] kind = "from"   -> <<"R","e","c","e","i","v","e","d",":"," ","b","y"," ","m","x","\r","\n","F","r","o","m",":"," ","H","a","l"," ">> \o NumStr(j) \o <<" ","<","h","@","x",".","i","o",">","\r","\n","T","o",":"," ","t","@","x",".","i","o","\r","\n">>
      [] kind = "sender" -> <<"S","u","b","j","e","c","t",":"," ","s","\n","S","e","n","d","e","r",":"," "," ","s","a","m">> \o NumStr(j)
      [] OTHER           -> <<"S","u","b","j","e","c","t",":"," ","s","\r","\n","X","-","F","r","o","m",":"," ","n","o","b","o","d","y","\r","\n">>

DirectKinds == {"absent", "blank", "address"}
HeaderKinds == {"absent", "from", "sender", "other"}

\* at most two direct fields and at most two header blobs are present in one message
FewPresent(f, absent) == Cardinality({i \in DOMAIN f : f[i] # absent}) <= 2
DirectChoices == {f \in [1..6 -> DirectKinds] : FewPresent(f, "absent")}
HeaderChoices == {f \in [1..5 -> HeaderKinds] : FewPresent(f, "absent")}

PrefixPool == <<<<>>, <<"S","t","a","g","e",":"," ","1"," ">>, <<"H","e","l","l","o",",","\n"," "," ">>>>
SenderPool == <<<<"J","a","n","e"," ","D","o","e">>, <<"j","@","x",".","o","r","g">>>>
\* what follows the name: the first five start with a next-field keyword on the same line
NextPool == <<<<" ","T","o",":"," ","T","e","a","m"," ","R","e","p","l","y"," ","R","e","q","u","i","r","e","d",":"," ","Y">>, <<" "," ","C","C",":"," ","c","@","x",".","o","r","g">>, <<"\t","B","c","c",":"," ","b">>, <<" ","R","e","p","l","y"," "," ","r","e","q","u","i","r","e","d",":"," ","Y","\n","b","y","e">>, <<" ","D","a","t","e",":"," ","1"," ","N","o","v","\r","\n","T","e","x","t">>,
              <<>>, <<"\n","T","o",":"," ","z">>, <<" ","T","o","k","y","o",":"," ","z">>>>
KeywordNexts == 1..5

SenderShapes == [from : BOOLEAN, prefix : 1..Len(PrefixPool), name : 1..Len(SenderPool),
                 next : 1..Len(NextPool), html : BOOLEAN]
ShapeBody(sh) ==
    IF sh.from
    THEN PrefixPool[sh.prefix] \o <<"F","r","o","m",":"," ">> \o SenderPool[sh.name] \o NextPool[sh.next]
    ELSE PrefixPool[sh.prefix]
ShapeHtml(sh) == IF sh.html THEN <<"<","d","i","v",">","S","e","n","d","e","r",":"," ","W","e","b"," ","M","a","s","t","e","r","<","b","r",">","H","i","<","/","d","i","v",">">> ELSE <<>>

NoDirect == [i \in 1..6 |-> "absent"]
NoHeaders == [j \in 1..5 |-> "absent"]
PlainShape == [from |-> TRUE, prefix |-> 2, name |-> 1, next |-> 1, html |-> FALSE]

\* the inputs: every choice of direct fields, every choice of header blobs and every
\* body, each against a few settings of the other two
SenderInputs ==
    (DirectChoices \X {NoHeaders, [NoHeaders EXCEPT ![2] = "from"]}
                   \X {PlainShape, [PlainShape EXCEPT !.from = FALSE, !.prefix = 1]})
    \cup ({NoDirect, [NoDirect EXCEPT ![1] = "blank"]} \X HeaderChoices
                   \X {PlainShape, [PlainShape EXCEPT !.from = FALSE, !.prefix = 1]})
    \cup ({NoDirect, [NoDirect EXCEPT ![3] = "blank"]}
                   \X {NoHeaders, [NoHeaders EXCEPT ![1] = "other"]} \X SenderShapes)

MessageOf(d, h, sh) ==
    [senderEmailAddress           |-> DirectValue(1, d[1]),
     senderName                   |-> DirectValue(2, d[2]),
     sentRepresentingEmailAddress |-> DirectValue(3, d[3]),
     sentRepresentingName         |-> DirectValue(4, d[4]),
     senderSmtpAddress            |-> DirectValue(5, d[5]),
     sentRepresentingSmtpAddress  |-> DirectValue(6, d[6]),
     transportMessageHeaders      |-> HeaderValue(1, h[1]),
     internetMessageHeaders       |-> HeaderValue(2, h[2]),
     messageHeaders               |-> HeaderValue(3, h[3]),
     headers                      |-> HeaderValue(4, h[4]),
     header                       |-> HeaderValue(5, h[5]),
     body                         |-> ShapeBody(sh),
     bodyHTML                     |-> ShapeHtml(sh)]

SenderIdle == email = <<>> /\ senderShape = <<>> /\ sender = NoSender

\* extractSender(email), and extractSenderFromInjectedBodyBlock on its decoded body
ResolveSender ==
    /\ ~sender.done
    /\ sender' = [done |-> TRUE,
                  value |-> ExtractSender(email),
                  fromBody |-> ExtractSenderFromInjectedBodyBlock(DecodeText(email.body))]
    /\ UNCHANGED <<email, senderShape, now, parseVars, nameVars, stripVars, searchVars, laterVars>>

-----------------------------------------------------------------------------
(* The naming of one attachment, for every untrusted name *)

MaxNameHead == 2
NameAlphabet == {"/", "\\", ":", "?", ".", " ", "\t", "^A", "a"}

RECURSIVE SeqsUpTo(_, _)
SeqsUpTo(S, n) ==
    IF n = 0 THEN {<<>>}
    ELSE LET shorter == SeqsUpTo(S, n - 1)
         IN  shorter \cup {Append(q, c) : q \in {x \in shorter : Len(x) = n - 1}, c \in S}

\* names: a hostile head followed by filler, with lengths around the limit
NamePads == {0, MaxBasename - MaxNameHead, MaxBasename, MaxBasename + 1}
UntrustedNames ==
    {h \o Repeat("b", n) : h \in SeqsUpTo(NameAlphabet, MaxNameHead), n \in NamePads}

NameIdle ==
    /\ attInput = [longFilename |-> <<>>, filename |-> <<>>, fault |-> "none"]
    /\ attIndex = 0
    /\ storedRef = NoRef

\* extractAttachments reaches attachment attIndex of a message whose key was made from
\* an empty emails list at the same clock reading
NameAttachment ==
    /\ storedRef = NoRef
    /\ storedRef' = ExtractOne(attInput, attIndex, now, EmailKey(0, now))
    /\ UNCHANGED <<now, attInput, attIndex, parseVars, stripVars, senderVars, searchVars, laterVars>>

-----------------------------------------------------------------------------
(* stripInjectedHeaderBlock over texts made of header lines, a blank line, a body *)

MaxHeaderLines == 17
Pending == [done |-> FALSE, strip |-> <<>>, body |-> <<>>]

HeaderPool == << <<"S","t","a","g","e",":"," ","x">>,
                 <<"F","r","o","m",":"," ","a","@","b",".","c","o","m">>,
                 <<"T","o",":"," ","c","@","d",".","c","o","m">>,
                 <<"R","e","p","l","y"," ","R","e","q","u","i","r","e","d",":"," ","y","e","s">>,
                 <<" ","c","C"," ",":","z">>,
                 <<"S","E","N","T",":">> >>

\* bodies: lists of lines, the first and the last not blank
BodyPool == { << <<"H","e","l","l","o"," ","w","o","r","l","d">> >>,
              << <<"N","o","t","e",":"," ","h","i">>, <<>>, <<"b","y","e">> >>,
              << <<"D","a","t","e",":"," ","1">>, <<"p","r","o","s","e">> >> }

\* header line j of a text whose first header line is HeaderPool[first]
HeaderLineOf(first, j) == HeaderPool[((first + j - 2) % Len(HeaderPool)) + 1]

ShapeLines(shape) ==
    [i \in 1..shape.lead |-> <<" ">>]
      \o [j \in 1..shape.headers |-> HeaderLineOf(shape.first, j)]
      \o (IF shape.blank THEN << <<>> >> ELSE <<>>)
      \o shape.body

ShapeText(shape) == Join(ShapeLines(shape), IF shape.crlf THEN <<"\r", "\n">> ELSE <<"\n">>)

BodyShapes ==
    [lead : 0..1, headers : 0..MaxHeaderLines, first : {1, 4}, blank : BOOLEAN,
     body : BodyPool, crlf : BOOLEAN]

StripIdle ==
    /\ bodyShape = [lead |-> 0, headers |-> 0, first |-> 1, blank |-> FALSE,
                    body |-> <<>>, crlf |-> FALSE]
    /\ bodyText = <<>>
    /\ stripped = Pending

\* stripInjectedHeaderBlock(bodyText), and extractBody of a message whose plain body it is
StripBody ==
    /\ stripped = Pending
    /\ stripped' = [done |-> TRUE,
                    strip |-> StripInjectedHeaderBlock(bodyText),
                    body |-> ExtractBody([body |-> bodyText, bodyHTML |-> <<>>])]
    /\ UNCHANGED <<bodyText, bodyShape, now, parseVars, nameVars, senderVars, searchVars, laterVars>>

-----------------------------------------------------------------------------
(* The store searched by searchEmails: a behaviour is a history of inserts followed
   by the one searchEmails call that is observed.  searchEmails writes nothing, so the
   stores reachable after it are the stores reachable before it *)

MaxMails == 2
MaxAttachmentRows == 1
MaxTopK == 2

NoSearch == [done |-> FALSE, query |-> <<>>, topK |-> 0, hits |-> <<>>]

\* the InsertEmail records of the model: one holds "invoice" three times and "payment"
\* once, one holds "invoice" once, one has no sender and no date
MailPool ==
    {[subject |-> <<"I", "n", "v", "o", "i", "c", "e">>,
     body |-> <<"i", "n", "v", "o", "i", "c", "e", " ", "p", "a", "y", "m", "e", "n", "t", " ", "I", "N", "V", "O", "I", "C", "E">>,
     sender |-> <<"a", "@", "x", ".", "i", "o">>, date |-> <<"2", "0", "2", "4">>],
     [subject |-> <<"H", "e", "l", "l", "o">>,
     body |-> <<"i", "n", "v", "o", "i", "c", "e", " ", "d", "u", "e">>,
     sender |-> <<"b", "@", "x", ".", "i", "o">>, date |-> <<"2", "0", "2", "5">>],
     [subject |-> <<"a", "a", "a">>,
     body |-> <<"a", ".", "b", " ", "a", "x", "b">>,
     sender |-> Undefined, date |-> Undefined]}

\* the InsertEmailAttachment records of the model
AttachmentPool ==
    {[filename |-> <<"p", ".", "p", "d", "f">>, originalName |-> <<"P", "a", "y", ".", "p", "d", "f">>,
     extractedText |-> <<"p", "a", "y", "m", "e", "n", "t", " ", "t", "e", "r", "m", "s">>],
     [filename |-> <<"d", "u", "e", ".", "t", "x", "t">>, originalName |-> Null,
     extractedText |-> Null]}

QueryPool ==
    {<<" ", "\t">>,
     <<"i", "n", "v", "o", "i", "c", "e", " ", "p", "a", "y", "m", "e", "n", "t">>,
     <<"I", "N", "V", "O", "I", "C", "E">>,
     <<" ", " ", "a", "a", " ", "a", ".", "b", " ">>,
     <<"x">>,
     <<>>,
     <<"d", "u", "e", " ", "a">>,
     <<"a", "_", "b">>}

SearchIdle == dbEmails = <<>> /\ dbAttachments = <<>> /\ search = NoSearch

\* value || ""
OrEmpty(text) == IF text = Undefined THEN <<>> ELSE text

\* insertEmail(email): the row gets the next id of the table
InsertEmail ==
    \E m \in MailPool :
        /\ ~search.done
        /\ Len(dbEmails) < MaxMails
        /\ dbEmails' = Append(dbEmails, [subject |-> OrEmpty(m.subject), sender |-> OrEmpty(m.sender),
                                         date |-> OrEmpty(m.date), body |-> OrEmpty(m.body)])
        /\ UNCHANGED <<dbAttachments, search, now, parseVars, nameVars, stripVars, senderVars, laterVars>>

\* the rows written by the transaction of addEmailAttachments
AttachmentRows(emailId, items) ==
    [k \in 1..Len(items) |->
        [email_id |-> emailId, filename |-> items[k].filename,
         original_name |-> items[k].originalName, extracted_text |-> items[k].extractedText]]

\* addEmailAttachments(emailId, attachments)
AddEmailAttachments ==
    \E emailId \in 1..Len(dbEmails) :
        \E items \in SeqsUpTo(AttachmentPool, MaxAttachmentRows - Len(dbAttachments)) :
            /\ ~search.done
            /\ dbAttachments' = dbAttachments \o AttachmentRows(emailId, items)
            /\ UNCHANGED <<dbEmails, search, now, parseVars, nameVars, stripVars, senderVars, laterVars>>

\* searchEmails(query, topK)
SearchEmails ==
    \E query \in QueryPool :
        \E topK \in 0..MaxTopK :
            /\ ~search.done
            /\ search' = [done |-> TRUE, query |-> query, topK |-> topK,
                          hits |-> SearchEmailsResult(dbEmails, dbAttachments, query, topK)]
            /\ UNCHANGED <<dbEmails, dbAttachments, now, parseVars, nameVars, stripVars, senderVars, laterVars>>

-----------------------------------------------------------------------------
(* storage: DatabaseStorage.searchEmails, and the searchEmails of local-storage.ts
   lines 432-460 with the same steps: the whole query is the LIKE pattern *)

PhraseLimit == 100

\* ilike(column, `%${query}%`) on subject, body, sender and date, then .limit(100):
\* the rows in id order
PhraseRows(es, query) ==
    Slice0(SelectSeq([id \in 1..Len(es) |->
                         [id |-> id, subject |-> es[id].subject, sender |-> es[id].sender,
                          date |-> es[id].date, body |-> es[id].body]],
                     LAMBDA e : \/ Like(e.subject, query) \/ Like(e.body, query)
                                \/ Like(e.sender, query) \/ Like(e.date, query)),
           PhraseLimit)

\* the SearchResult of one row; textToScore is `${email.subject} ${email.body}`
PhraseScored(row, tokens) ==
    [mailId  |-> NumStr(row.id),
     subject |-> IF row.subject = <<>> THEN NoSubject ELSE row.subject,
     score   |-> ScoreText(row.subject \o <<" ">> \o row.body, tokens),
     sender  |-> IF row.sender = <<>> THEN Null ELSE row.sender,
     date    |-> IF row.date = <<>> THEN Null ELSE row.date,
     body    |-> row.body]

SearchByPhraseResult(es, query, topK) ==
    IF Tokenize(query) = <<>> THEN <<>>
    ELSE Slice0(SortByScore(SelectSeq([i \in 1..Len(PhraseRows(es, query)) |->
                                          PhraseScored(PhraseRows(es, query)[i], Tokenize(query))],
                                      LAMBDA r : r.score > 0)),
                Max(1, topK))

\* searchEmails(query, topK) of DatabaseStorage
SearchEmailsByPhrase ==
    \E query \in QueryPool :
        \E topK \in 0..MaxTopK :
            /\ ~search.done
            /\ search' = [done |-> TRUE, query |-> query, topK |-> topK,
                          hits |-> SearchByPhraseResult(dbEmails, query, topK)]
            /\ UNCHANGED <<dbEmails, dbAttachments, now, parseVars, nameVars, stripVars, senderVars, laterVars>>

-----------------------------------------------------------------------------
(* storage: DatabaseStorage.saveRagChunks, DatabaseStorage.searchRagChunks.
   An embedding is a vector of integers, none of them the zero vector, and the
   similarity 1 - cosineDistance is compared exactly, as the fraction
   dot / sqrt(norm2 * norm2) *)

Dot(a, b) == SumSeq([i \in 1..Len(a) |-> a[i] * b[i]])
Norm2(a) == Dot(a, a)

\* const SIMILARITY_THRESHOLD = 0.25, in hundredths
SimilarityThreshold == 25

\* the similarity of row to the query, kept as the numbers it is made of
Similarity(embedding, queryEmbedding) ==
    [dot |-> Dot(embedding, queryEmbedding), na |-> Norm2(embedding),
     nq |-> Norm2(queryEmbedding)]

\* the square of a similarity with its sign, over the common denominator na * nq
SignedSquare(sim) == IF sim.dot >= 0 THEN sim.dot * sim.dot ELSE -(sim.dot * sim.dot)

\* mutant: a similarity at the threshold passes too
AtLeastThreshold(sim) ==
    sim.dot > 0 /\ 10000 * sim.dot * sim.dot
                       >= SimilarityThreshold * SimilarityThreshold * sim.na * sim.nq

\* gt(similarity, SIMILARITY_THRESHOLD)
GtThreshold(sim) ==
    sim.dot > 0 /\ 10000 * sim.dot * sim.dot
                       > SimilarityThreshold * SimilarityThreshold * sim.na * sim.nq

\* similarity a >= similarity b, both taken against the same query
SimGeq(a, b) == SignedSquare(a) * b.na >= SignedSquare(b) * a.na

\* the ids of the rows that pass the WHERE clause
Passing(rows, queryEmbedding) ==
    {id \in 1..Len(rows) : GtThreshold(Similarity(rows[id].embedding, queryEmbedding))}

\* orderBy(desc(similarity)): the orders the database may give the passing rows in;
\* rows of equal similarity come in any order
DescOrders(rows, queryEmbedding) ==
    LET ids == Passing(rows, queryEmbedding)
    IN  {p \in [1..Cardinality(ids) -> ids] :
            /\ \A i \in DOMAIN p : \A j \in DOMAIN p : i # j => p[i] # p[j]
            /\ \A i \in DOMAIN p : \A j \in DOMAIN p :
                   i < j => SimGeq(Similarity(rows[p[i]].embedding, queryEmbedding),
                                   Similarity(rows[p[j]].embedding, queryEmbedding))}

\* an integer column that may be NULL
NullInt == [isNull |-> TRUE, n |-> 0]
IntOf(n) == [isNull |-> FALSE, n |-> n]

\* results.map(...), lines 126-132
RagSearchResult(rows, id, queryEmbedding) ==
    [id      |-> id,
     mailId  |-> IF rows[id].mailId.isNull THEN 0 ELSE rows[id].mailId.n,
     subject |-> IF rows[id].subject = Null THEN <<>> ELSE rows[id].subject,
     content |-> rows[id].content,
     score   |-> Similarity(rows[id].embedding, queryEmbedding)]

\* .limit(topK) and the map over the rows selected
RagResults(rows, order, queryEmbedding, topK) ==
    [k \in 1..Min(Len(order), topK) |-> RagSearchResult(rows, order[k], queryEmbedding)]

\* ---- the chunks stored and the queries asked

MaxRagChunks == 3
MaxRagBatch == 2
MaxRagTopK == 2

\* the InsertRagChunk records of the model.  Against the query <<1, 0, 0, 0, 0>> their
\* similarities are 1, exactly 1/4, 1/sqrt(2) twice, 0 and -1
ChunkPool ==
    {[mailId |-> IntOf(1), subject |-> <<"A">>, content |-> <<"a">>, embedding |-> <<1, 0, 0, 0, 0>>],
     [mailId |-> IntOf(1), subject |-> <<"A">>, content |-> <<"b">>, embedding |-> <<1, 3, 2, 1, 1>>],
     [mailId |-> IntOf(2), subject |-> <<"B">>, content |-> <<"c">>, embedding |-> <<1, 1, 0, 0, 0>>],
     [mailId |-> NullInt, subject |-> Null, content |-> <<"d">>, embedding |-> <<2, 2, 0, 0, 0>>],
     [mailId |-> IntOf(2), subject |-> <<"B">>, content |-> <<"e">>, embedding |-> <<0, 1, 0, 0, 0>>],
     [mailId |-> IntOf(2), subject |-> <<"B">>, content |-> <<"f">>, embedding |-> <<-1, 0, 0, 0, 0>>]}

QueryEmbeddings == {<<1, 0, 0, 0, 0>>, <<0, 2, 0, 0, 0>>}

NoRagSearch == [done |-> FALSE, query |-> <<>>, topK |-> 0, hits |-> <<>>]

RagIdle == ragChunks = <<>> /\ ragSearch = NoRagSearch

\* saveRagChunks(chunks): nothing is written for an empty list
SaveRagChunks ==
    \E chunks \in SeqsUpTo(ChunkPool, Min(MaxRagBatch, MaxRagChunks - Len(ragChunks))) :
        /\ ~ragSearch.done
        /\ ragChunks' = (IF chunks = <<>> THEN ragChunks ELSE ragChunks \o chunks)
        /\ UNCHANGED <<ragSearch, now, parseVars, oldVars, notRagVars>>

\* searchRagChunks(queryEmbedding, topK)
SearchRagChunks ==
    \E queryEmbedding \in QueryEmbeddings :
        \E order \in DescOrders(ragChunks, queryEmbedding) :
            \E topK \in 0..MaxRagTopK :
                /\ ~ragSearch.done
                /\ ragSearch' = [done |-> TRUE, query |-> queryEmbedding, topK |-> topK,
                                 hits |-> RagResults(ragChunks, order, queryEmbedding, topK)]
                /\ UNCHANGED <<ragChunks, now, parseVars, oldVars, notRagVars>>

-----------------------------------------------------------------------------
(* routes: chunkString *)

\* the while loop of chunkString from a given start, lines 895-900
RECURSIVE ChunksFrom(_, _, _, _)
ChunksFrom(str, start, size, step) ==
    IF start >= Len(str) THEN <<>>
    ELSE <<SubSeq(str, start + 1, Min(start + size, Len(str)))>>
             \o (IF Min(start + size, Len(str)) = Len(str) THEN <<>>
                 ELSE ChunksFrom(str, start + step, size, step))

\* mutant: the next chunk starts where the last one ended
ChunkStringNoOverlap(str, size, overlap) == ChunksFrom(str, 0, size, size)

ChunkString(str, size, overlap) ==
    IF str = <<>> THEN <<>> ELSE ChunksFrom(str, 0, size, size - overlap)

\* ---- the texts chunked.  The loop ends only when size > overlap; the model keeps to
\* 0 <= overlap < size

MaxTextLen == 12
MaxChunkSize == 5

\* a text of n characters: all different, or all the same
TextOf(n, kind) ==
    [i \in 1..n |-> IF kind = "distinct" THEN LowerLetters[i] ELSE "a"]

\* the call of the import: a body of 1200 characters, size 500, overlap 100
LongInput ==
    [text |-> [i \in 1..1200 |-> Digits[(i % 7) + 1]], size |-> 500, overlap |-> 100]

ChunkInputs ==
    {[text |-> TextOf(n, kind), size |-> size, overlap |-> overlap] :
        n \in 0..MaxTextLen, kind \in {"distinct", "same"},
        size \in 1..MaxChunkSize, overlap \in 0..(MaxChunkSize - 1)}

NotChunked == [done |-> FALSE, chunks |-> <<>>]
NoChunkInput == [text |-> <<>>, size |-> 1, overlap |-> 0]

ChunkIdle == chunkInput = NoChunkInput /\ chunked = NotChunked

ChunkStart ==
    /\ chunkInput \in {in \in ChunkInputs : in.overlap < in.size} \cup {LongInput}
    /\ chunked = NotChunked

\* chunkString(str, size, overlap)
ChunkText ==
    /\ ~chunked.done
    /\ chunked' = [done |-> TRUE,
                   chunks |-> ChunkString(chunkInput.text, chunkInput.size, chunkInput.overlap)]
    /\ UNCHANGED <<chunkInput, now, parseVars, oldVars, notChunkVars>>

-----------------------------------------------------------------------------
(* ollama: chatWithOllama, classifyEmail, extractEventsFromEmail, generateEmbedding *)

\* ---- JSON values
JString(s) == [type |-> "string", str |-> s, keys |-> <<>>, vals |-> <<>>]
JNumber(digits) == [type |-> "number", str |-> digits, keys |-> <<>>, vals |-> <<>>]
JNull == [type |-> "null", str |-> <<>>, keys |-> <<>>, vals |-> <<>>]
JUndefined == [type |-> "undefined", str |-> <<>>, keys |-> <<>>, vals |-> <<>>]
JSyntaxError == [type |-> "SyntaxError", str |-> <<>>, keys |-> <<>>, vals |-> <<>>]
JObject(keys, vals) == [type |-> "object", str |-> <<>>, keys |-> keys, vals |-> vals]
JArray(vals) == [type |-> "array", str |-> <<>>, keys |-> <<>>, vals |-> vals]

\* JSON.parse on the texts the model hands it; any other text is a SyntaxError
JsonParse(text) ==
    CASE
         text = <<"{","\"","c","l","a","s","s","i","f","i","c","a","t","i","o","n","\"",":","\"","m","e","e","t","i","n","g","\"",",","\"","c","o","n","f","i","d","e","n","c","e","\"",":","\"","h","i","g","h","\"","}">> ->
            JObject(<<<<"c","l","a","s","s","i","f","i","c","a","t","i","o","n">>, <<"c","o","n","f","i","d","e","n","c","e">>>>, <<JString(<<"m","e","e","t","i","n","g">>), JString(<<"h","i","g","h">>)>>)
      [] text = <<"{","\"","c","l","a","s","s","i","f","i","c","a","t","i","o","n","\"",":","\"","u","r","g","e","n","t","_","r","e","p","l","y","\"","}">> ->
            JObject(<<<<"c","l","a","s","s","i","f","i","c","a","t","i","o","n">>>>, <<JString(<<"u","r","g","e","n","t","_","r","e","p","l","y">>)>>)
      [] text = <<"{","}">> ->
            JObject(<<>>, <<>>)
      [] text = <<"{","\"","c","o","n","f","i","d","e","n","c","e","\"",":","\"","h","i","g","h","\"","}">> ->
            JObject(<<<<"c","o","n","f","i","d","e","n","c","e">>>>, <<JString(<<"h","i","g","h">>)>>)
      [] text = <<"{","\"","c","l","a","s","s","i","f","i","c","a","t","i","o","n","\"",":","\"","\"",",","\"","c","o","n","f","i","d","e","n","c","e","\"",":","\"","\"","}">> ->
            JObject(<<<<"c","l","a","s","s","i","f","i","c","a","t","i","o","n">>, <<"c","o","n","f","i","d","e","n","c","e">>>>, <<JString(<<>>), JString(<<>>)>>)
      [] text = <<"{","\"","c","l","a","s","s","i","f","i","c","a","t","i","o","n","\"",":","7",",","\"","c","o","n","f","i","d","e","n","c","e","\"",":","n","u","l","l","}">> ->
            JObject(<<<<"c","l","a","s","s","i","f","i","c","a","t","i","o","n">>, <<"c","o","n","f","i","d","e","n","c","e">>>>, <<JNumber(<<"7">>), JNull>>)
      [] text = <<"{","\"","t","i","t","l","e","\"",":","\"","K","i","c","k","o","f","f","\"",",","\"","s","t","a","r","t","D","a","t","e","\"",":","\"","2","0","2","4","-","0","5","-","0","1","\"","}">> ->
            JObject(<<<<"t","i","t","l","e">>, <<"s","t","a","r","t","D","a","t","e">>>>, <<JString(<<"K","i","c","k","o","f","f">>), JString(<<"2","0","2","4","-","0","5","-","0","1">>)>>)
      [] text = <<"[","{","\"","t","i","t","l","e","\"",":","\"","K","i","c","k","o","f","f","\"",",","\"","s","t","a","r","t","D","a","t","e","\"",":","\"","2","0","2","4","-","0","5","-","0","1","\"","}","]">> ->
            JArray(<<JObject(<<<<"t","i","t","l","e">>, <<"s","t","a","r","t","D","a","t","e">>>>, <<JString(<<"K","i","c","k","o","f","f">>), JString(<<"2","0","2","4","-","0","5","-","0","1">>)>>)>>)
      [] text = <<"[","{","\"","t","i","t","l","e","\"",":","\"","D","e","m","o","\"",",","\"","s","t","a","r","t","D","a","t","e","\"",":","\"","2","0","2","4","-","0","5","-","0","2"," ","1","0",":","0","0","\"",",","\"","l","o","c","a","t","i","o","n","\"",":","\"","H","Q","\"","}",",","{","\"","t","i","t","l","e","\"",":","\""," ","\"",",","\"","s","t","a","r","t","D","a","t","e","\"",":","\"","2","0","2","4","-","0","5","-","0","3","\"","}","]">> ->
            JArray(<<JObject(<<<<"t","i","t","l","e">>, <<"s","t","a","r","t","D","a","t","e">>, <<"l","o","c","a","t","i","o","n">>>>, <<JString(<<"D","e","m","o">>), JString(<<"2","0","2","4","-","0","5","-","0","2"," ","1","0",":","0","0">>), JString(<<"H","Q">>)>>), JObject(<<<<"t","i","t","l","e">>, <<"s","t","a","r","t","D","a","t","e">>>>, <<JString(<<" ">>), JString(<<"2","0","2","4","-","0","5","-","0","3">>)>>)>>)
      [] text = <<"[","]">> ->
            JArray(<<>>)
      [] text = <<"{","\"","t","i","t","l","e","\"",":","\"","T","\"","}">> ->
            JObject(<<<<"t","i","t","l","e">>>>, <<JString(<<"T">>)>>)
      [] text = <<"[","{","\"","t","i","t","l","e","\"",":","\"","T","\"","}","]">> ->
            JArray(<<JObject(<<<<"t","i","t","l","e">>>>, <<JString(<<"T">>)>>)>>)
      [] text = <<"{","\"","l","i","s","t","\"",":","[","1","]","}">> ->
            JObject(<<<<"l","i","s","t">>>>, <<JArray(<<JNumber(<<"1">>)>>)>>)
      [] text = <<"[","1","]">> ->
            JArray(<<JNumber(<<"1">>)>>)
      [] text = <<"[","n","u","l","l","]">> ->
            JArray(<<JNull>>)
      [] text = <<"{","\"","t","i","t","l","e","\"",":","5",",","\"","s","t","a","r","t","D","a","t","e","\"",":","\"","2","0","2","4","-","0","5","-","0","1","\"","}">> ->
            JObject(<<<<"t","i","t","l","e">>, <<"s","t","a","r","t","D","a","t","e">>>>, <<JNumber(<<"5">>), JString(<<"2","0","2","4","-","0","5","-","0","1">>)>>)
      [] text = <<"[","{","\"","t","i","t","l","e","\"",":","5",",","\"","s","t","a","r","t","D","a","t","e","\"",":","\"","2","0","2","4","-","0","5","-","0","1","\"","}","]">> ->
            JArray(<<JObject(<<<<"t","i","t","l","e">>, <<"s","t","a","r","t","D","a","t","e">>>>, <<JNumber(<<"5">>), JString(<<"2","0","2","4","-","0","5","-","0","1">>)>>)>>)
      [] OTHER -> JSyntaxError

\* v.key: reading a property of null or undefined throws a TypeError
ReadThrows(v) == v.type \in {"null", "undefined"}
Get(v, key) ==
    IF v.type = "object" /\ \E k \in 1..Len(v.keys) : v.keys[k] = key
    THEN v.vals[CHOOSE k \in 1..Len(v.keys) : v.keys[k] = key]
    ELSE JUndefined

\* the truthiness of a value
Truthy(v) ==
    CASE v.type = "string" -> v.str # <<>>
      [] v.type = "number" -> v.str # <<"0">>
      [] v.type \in {"object", "array"} -> TRUE
      [] OTHER -> FALSE

\* response.match(/\{[\s\S]*\}/) and response.match(/\[[\s\S]*\]/): from the first
\* opening character to the last closing one after it; <<>> when there is no match
MatchBetween(response, open, close) ==
    LET opens == {i \in 1..Len(response) : response[i] = open}
        closes == {j \in 1..Len(response) : response[j] = close}
    IN  IF opens = {} \/ \A j \in closes : j < Least(opens) THEN <<>>
        ELSE SubSeq(response, Least(opens), Greatest(closes))

\* ---- the replies of the language-model service to one request
\* unreachable: fetch rejects;  status: a response that is not ok;
\* badjson: response.json() throws;  nomessage: JSON without message.content;
\* content: message.content is the text
ChatFailures == {"unreachable", "status", "badjson", "nomessage"}
ChatFailure(kind) == [kind |-> kind, content |-> <<>>]
ChatContent(text) == [kind |-> "content", content |-> text]

\* chatWithOllama(messages): the content, or the Error thrown from its catch
ChatWithOllama(reply) ==
    IF reply.kind = "content" THEN [threw |-> FALSE, content |-> reply.content]
    ELSE [threw |-> TRUE, content |-> <<>>]

DefaultClassification ==
    [classification |-> JString(<<"r","e","f","e","r","e","n","c","e">>), confidence |-> JString(<<"l","o","w">>)]

\* the result of classifyEmail once the reply is in hand, ollama lines 137-139
ClassifyParsed(jsonMatch) ==
    IF jsonMatch = <<>> THEN DefaultClassification
    ELSE IF JsonParse(jsonMatch) = JSyntaxError THEN DefaultClassification
    ELSE [classification |-> Get(JsonParse(jsonMatch), <<"c","l","a","s","s","i","f","i","c","a","t","i","o","n">>),
          confidence |-> Get(JsonParse(jsonMatch), <<"c","o","n","f","i","d","e","n","c","e">>)]

\* classifyEmail(subject, body, sender) of ollama
ClassifyEmail(reply) ==
    IF ChatWithOllama(reply).threw THEN DefaultClassification
    ELSE ClassifyParsed(MatchBetween(ChatWithOllama(reply).content, "{", "}"))

OrElse(v, default) == IF Truthy(v) THEN v ELSE JString(default)

\* the result of the classifyEmail of routes, lines 1219-1227
ClassifyParsedWithDefaults(jsonMatch) ==
    IF jsonMatch = <<>> THEN DefaultClassification
    ELSE IF JsonParse(jsonMatch) = JSyntaxError THEN DefaultClassification
    ELSE [classification |-> OrElse(Get(JsonParse(jsonMatch), <<"c","l","a","s","s","i","f","i","c","a","t","i","o","n">>), <<"r","e","f","e","r","e","n","c","e">>),
          confidence |-> OrElse(Get(JsonParse(jsonMatch), <<"c","o","n","f","i","d","e","n","c","e">>), <<"m","e","d","i","u","m">>)]

\* classifyEmail(subject, body, sender) of routes, lines 1194-1232
ClassifyEmailWithDefaults(reply) ==
    IF ChatWithOllama(reply).threw THEN DefaultClassification
    ELSE ClassifyParsedWithDefaults(MatchBetween(ChatWithOllama(reply).content, "{", "}"))

\* e.title && e.title.trim() !== '' && e.startDate && e.startDate.trim() !== '':
\* "keep", "drop", or "throws" when e is null or a truthy field is no string
FieldVerdict(v) ==
    IF ~Truthy(v) THEN "drop"
    ELSE IF v.type # "string" THEN "throws"
    ELSE IF Trim(v.str) = <<>> THEN "drop" ELSE "keep"

EventVerdict(e) ==
    IF ReadThrows(e) THEN "throws"
    ELSE IF FieldVerdict(Get(e, <<"t","i","t","l","e">>)) # "keep" THEN FieldVerdict(Get(e, <<"t","i","t","l","e">>))
    ELSE FieldVerdict(Get(e, <<"s","t","a","r","t","D","a","t","e">>))

\* the filter of lines 1151-1158; a throw inside it ends in the catch, which returns []
ValidEvents(events) ==
    IF events.type # "array" THEN <<>>
    ELSE IF \E k \in 1..Len(events.vals) :
                /\ EventVerdict(events.vals[k]) = "throws"
                /\ \A j \in 1..(k - 1) : EventVerdict(events.vals[j]) # "throws"
         THEN <<>>
         ELSE SelectSeq(events.vals, LAMBDA e : EventVerdict(e) = "keep")

EventsParsed(jsonMatch) ==
    IF jsonMatch = <<>> THEN <<>>
    ELSE IF JsonParse(jsonMatch) = JSyntaxError THEN <<>>
    ELSE ValidEvents(JsonParse(jsonMatch))

\* extractEventsFromEmail(emailSubject, emailBody, emailDate)
ExtractEventsFromEmail(reply) ==
    IF ChatWithOllama(reply).threw THEN <<>>
    ELSE EventsParsed(MatchBetween(ChatWithOllama(reply).content, "[", "]"))

\* ---- the replies asked about

ContentPool ==
    {<<"{","\"","c","l","a","s","s","i","f","i","c","a","t","i","o","n","\"",":","\"","m","e","e","t","i","n","g","\"",",","\"","c","o","n","f","i","d","e","n","c","e","\"",":","\"","h","i","g","h","\"","}">>,
     <<"O","K"," ","{","\"","c","l","a","s","s","i","f","i","c","a","t","i","o","n","\"",":","\"","u","r","g","e","n","t","_","r","e","p","l","y","\"","}"," ","d","o","n","e">>,
     <<"I","t"," ","i","s"," ","a"," ","m","e","e","t","i","n","g",".">>,
     <<"{","c","l","a","s","s","i","f","i","c","a","t","i","o","n",":"," ","m","e","e","t","i","n","g","}">>,
     <<"{","}">>,
     <<"{","\"","c","o","n","f","i","d","e","n","c","e","\"",":","\"","h","i","g","h","\"","}">>,
     <<"{","\"","c","l","a","s","s","i","f","i","c","a","t","i","o","n","\"",":","\"","\"",",","\"","c","o","n","f","i","d","e","n","c","e","\"",":","\"","\"","}">>,
     <<"{","\"","c","l","a","s","s","i","f","i","c","a","t","i","o","n","\"",":","7",",","\"","c","o","n","f","i","d","e","n","c","e","\"",":","n","u","l","l","}">>,
     <<"{","\"","a","\"",":","1","}"," ","o","r"," ","{","\"","b","\"",":","2","}">>,
     <<"[","{","\"","t","i","t","l","e","\"",":","\"","K","i","c","k","o","f","f","\"",",","\"","s","t","a","r","t","D","a","t","e","\"",":","\"","2","0","2","4","-","0","5","-","0","1","\"","}","]">>,
     <<"E","v","e","n","t","s",":"," ","[","{","\"","t","i","t","l","e","\"",":","\"","D","e","m","o","\"",",","\"","s","t","a","r","t","D","a","t","e","\"",":","\"","2","0","2","4","-","0","5","-","0","2"," ","1","0",":","0","0","\"",",","\"","l","o","c","a","t","i","o","n","\"",":","\"","H","Q","\"","}",",","{","\"","t","i","t","l","e","\"",":","\""," ","\"",",","\"","s","t","a","r","t","D","a","t","e","\"",":","\"","2","0","2","4","-","0","5","-","0","3","\"","}","]">>,
     <<"[","]">>,
     <<"[","{","\"","t","i","t","l","e","\"",":","\"","T","\"","}","]">>,
     <<"[","o","o","p","s","]">>,
     <<"[","1",","," ","2">>,
     <<"{","\"","l","i","s","t","\"",":","[","1","]","}">>,
     <<"[","n","u","l","l","]">>,
     <<"[","{","\"","t","i","t","l","e","\"",":","5",",","\"","s","t","a","r","t","D","a","t","e","\"",":","\"","2","0","2","4","-","0","5","-","0","1","\"","}","]">>}

ChatReplies == {ChatFailure(k) : k \in ChatFailures} \cup {ChatContent(c) : c \in ContentPool}

NoLlmResult == [classified |-> FALSE, extracted |-> FALSE, defaulted |-> FALSE,
                classification |-> DefaultClassification,
                withDefaults |-> DefaultClassification, events |-> <<>>]

LlmIdle == llmReply = ChatFailure("unreachable") /\ llmResult = NoLlmResult
LlmStart == llmReply \in ChatReplies /\ llmResult = NoLlmResult

\* classifyEmail of ollama on one reply
ClassifyEmailCall ==
    /\ ~llmResult.classified
    /\ llmResult' = [llmResult EXCEPT !.classified = TRUE,
                                      !.classification = ClassifyEmail(llmReply)]
    /\ UNCHANGED <<llmReply, now, parseVars, oldVars, notLlmVars>>

\* classifyEmail of routes on one reply
ClassifyEmailWithDefaultsCall ==
    /\ ~llmResult.defaulted
    /\ llmResult' = [llmResult EXCEPT !.defaulted = TRUE,
                                      !.withDefaults = ClassifyEmailWithDefaults(llmReply)]
    /\ UNCHANGED <<llmReply, now, parseVars, oldVars, notLlmVars>>

\* extractEventsFromEmail on one reply
ExtractEventsCall ==
    /\ ~llmResult.extracted
    /\ llmResult' = [llmResult EXCEPT !.extracted = TRUE,
                                      !.events = ExtractEventsFromEmail(llmReply)]
    /\ UNCHANGED <<llmReply, now, parseVars, oldVars, notLlmVars>>

-----------------------------------------------------------------------------
(* ollama: generateEmbedding;  routes: POST /api/import with the background pass that
   classifies, chunks and embeds (lines 931-994) *)

\* the replies of the embedding service to one request
\* unreachable: fetch rejects;  status: a response that is not ok;
\* badjson: response.json() throws;  nofield: JSON without an embedding;
\* vector: JSON with an embedding
EmbedFailures == {"unreachable", "status", "badjson"}
EmbedReplies == EmbedFailures \cup {"nofield", "vector"}

\* the embedding the service gives for a text
EmbeddingOf(text) == <<Len(text), 1, 0, 0, 0>>

\* generateEmbedding(text): data.embedding, or [] from the catch
GenerateEmbedding(text, reply) ==
    IF reply \in EmbedFailures THEN [defined |-> TRUE, vector |-> <<>>]
    ELSE IF reply = "vector" THEN [defined |-> TRUE, vector |-> EmbeddingOf(text)]
    ELSE [defined |-> FALSE, vector |-> <<>>]

\* `Subject: ${email.subject}\nSender: ${email.sender}\nDate: ${email.date}\n\n${email.body}`
FullContent(e) ==
    <<"S","u","b","j","e","c","t",":"," ">> \o e.subject \o <<"\n","S","e","n","d","e","r",":"," ">> \o e.sender \o <<"\n","D","a","t","e",":"," ">> \o e.date
        \o <<"\n", "\n">> \o e.body

\* chunkString(fullContent, 500, 100)
TextChunks(e) == ChunkString(FullContent(e), 500, 100)

\* the first chunk at which vector.length throws, 0 when none does
FirstThrow(e, replies) ==
    IF \A i \in 1..Len(replies) : GenerateEmbedding(TextChunks(e)[i], replies[i]).defined
    THEN 0
    ELSE Least({i \in 1..Len(replies) :
                    ~GenerateEmbedding(TextChunks(e)[i], replies[i]).defined})

\* the inner loop, lines 969-979: chunksToSave
ChunksToSave(e, replies) ==
    Flatten([i \in 1..Len(replies) |->
        IF GenerateEmbedding(TextChunks(e)[i], replies[i]).vector # <<>>
        THEN <<[mailId |-> e.id, subject |-> e.subject, content |-> TextChunks(e)[i],
                embedding |-> GenerateEmbedding(TextChunks(e)[i], replies[i]).vector]>>
        ELSE <<>>])

\* the requests made to the embedding service for one email
EmbedRequests(e, replies) ==
    [i \in 1..(IF FirstThrow(e, replies) = 0 THEN Len(replies) ELSE FirstThrow(e, replies)) |->
        [op |-> "embed", mail |-> e.id, chunk |-> i, reply |-> replies[i]]]

\* the body of the background loop for one email, lines 958-987
EnrichedRag(db, e, chatReply, replies) ==
    [emails |-> [db.emails EXCEPT ![e.id] =
                    [@ EXCEPT !.classification = ClassifyEmail(chatReply).classification,
                              !.confidence = ClassifyEmail(chatReply).confidence,
                              !.isProcessed = TRUE]],
     chunks |-> IF FirstThrow(e, replies) = 0
                THEN db.chunks \o ChunksToSave(e, replies)
                ELSE db.chunks]

\* ---- the request body: rawData and its messages

\* msg.from: undefined, null, or an object with an email
NoFrom == [type |-> "undefined", email |-> <<>>]
NullFrom == [type |-> "null", email |-> <<>>]
FromObject(address) == [type |-> "object", email |-> address]

\* subject: msg.subject || "(no subject)", ..., lines 939-945
EmailToInsert(msg, t) ==
    [subject |-> IF msg.subject = <<>> THEN NoSubject ELSE msg.subject,
     sender  |-> IF msg.from.type = "object" THEN msg.from.email
                 ELSE IF msg.sender = <<>> THEN <<"U","n","k","n","o","w","n">> ELSE msg.sender,
     body    |-> IF msg.body_text # <<>> THEN msg.body_text ELSE msg.body,
     date    |-> IF msg.date = <<>> THEN <<"T">> \o NumStr(t) ELSE msg.date]

\* typeof null === "object", and reading .email of null throws
MapThrows(messages) == \E k \in 1..Len(messages) : messages[k].from.type = "null"

\* db.insert(emails).values(...).returning(): the rows with their new ids
InsertedRows(db, emailsToInsert) ==
    [k \in 1..Len(emailsToInsert) |->
        [id |-> Len(db.emails) + k, subject |-> emailsToInsert[k].subject,
         sender |-> emailsToInsert[k].sender, body |-> emailsToInsert[k].body,
         date |-> emailsToInsert[k].date, classification |-> JNull, confidence |-> JNull,
         isProcessed |-> FALSE]]

MaxImported == 2

LongBody == [i \in 1..480 |-> "x"]

MessagePool ==
    {[subject |-> <<"H","i">>, from |-> NoFrom, sender |-> <<"a","@","x">>,
      body_text |-> <<>>, body |-> <<"o","k">>, date |-> <<"d","1">>],
     [subject |-> <<>>, from |-> FromObject(<<"b","@","x">>), sender |-> <<>>,
      body_text |-> LongBody, body |-> <<>>, date |-> <<>>]}

NullFromMessage ==
    [subject |-> <<"H","i">>, from |-> NullFrom, sender |-> <<>>,
     body_text |-> <<>>, body |-> <<>>, date |-> <<>>]

\* req.file: none, a buffer that is no JSON, an array of messages, or an object with
\* (or without) messages
Uploads ==
    {[file |-> f, messages |-> <<>>] : f \in {"none", "notjson", "object"}}
        \cup {[file |-> f, messages |-> ms] :
                 f \in {"array", "object"}, ms \in SeqsUpTo(MessagePool, MaxImported) \ {<<>>}}
        \cup {[file |-> "array", messages |-> <<NullFromMessage>>]}

NoResponse == [status |-> 0, ok |-> FALSE, inserted |-> 0]
Responded(status, ok, inserted) == [status |-> status, ok |-> ok, inserted |-> inserted]
EmptyDb == [emails |-> <<>>, chunks |-> <<>>]
Event(op) == [op |-> op, mail |-> 0, chunk |-> 0, reply |-> "none"]

RimpIdle ==
    /\ rimpPc = "idle" /\ rimpUpload = [file |-> "none", messages |-> <<>>]
    /\ rimpDb = EmptyDb /\ rimpInserted = <<>> /\ rimpNext = 0
    /\ rimpTrace = <<>> /\ rimpResponse = NoResponse

RimpStart ==
    /\ rimpPc = "request" /\ rimpUpload \in Uploads
    /\ rimpDb = EmptyDb /\ rimpInserted = <<>> /\ rimpNext = 0
    /\ rimpTrace = <<>> /\ rimpResponse = NoResponse

\* the handler up to its response, lines 931-954 and 991-993
RagImport ==
    /\ rimpPc = "request"
    /\ IF rimpUpload.file = "none"
       THEN /\ rimpResponse' = Responded(400, FALSE, 0)
            /\ rimpPc' = "rejected"
            /\ UNCHANGED <<rimpDb, rimpInserted, rimpTrace>>
       ELSE IF rimpUpload.file = "notjson" \/ MapThrows(rimpUpload.messages)
       THEN /\ rimpResponse' = Responded(500, FALSE, 0)
            /\ rimpPc' = "rejected"
            /\ UNCHANGED <<rimpDb, rimpInserted, rimpTrace>>
       ELSE \/ /\ rimpInserted' = InsertedRows(rimpDb,
                      [k \in 1..Len(rimpUpload.messages) |->
                          EmailToInsert(rimpUpload.messages[k], now)])
               /\ rimpDb' = [rimpDb EXCEPT !.emails = @ \o rimpInserted']
               /\ rimpResponse' = Responded(200, TRUE, Len(rimpInserted'))
               /\ rimpTrace' = rimpTrace \o <<Event("persist"), Event("respond")>>
               /\ rimpPc' = "background"
            \/ /\ rimpUpload.messages # <<>>
               /\ rimpResponse' = Responded(500, FALSE, 0)
               /\ rimpPc' = "rejected"
               /\ UNCHANGED <<rimpDb, rimpInserted, rimpTrace>>
    /\ UNCHANGED <<rimpUpload, rimpNext, now, parseVars, oldVars, notRimpVars>>

\* one pass of the background loop, lines 957-987
EnrichRagEmail ==
    /\ rimpPc = "background" /\ rimpNext < Len(rimpInserted)
    /\ LET e == rimpInserted[rimpNext + 1]
       IN  \E chatReply \in {ChatFailure("unreachable"), ChatContent(<<"{","\"","c","l","a","s","s","i","f","i","c","a","t","i","o","n","\"",":","\"","m","e","e","t","i","n","g","\"",",","\"","c","o","n","f","i","d","e","n","c","e","\"",":","\"","h","i","g","h","\"","}">>)} :
               \E replies \in [1..Len(TextChunks(e)) -> EmbedReplies] :
                   /\ rimpDb' = EnrichedRag(rimpDb, e, chatReply, replies)
                   /\ rimpTrace' = rimpTrace
                          \o <<[op |-> "classify", mail |-> e.id, chunk |-> 0,
                                reply |-> chatReply.kind]>>
                          \o EmbedRequests(e, replies)
    /\ rimpNext' = rimpNext + 1
    /\ UNCHANGED <<rimpPc, rimpUpload, rimpInserted, rimpResponse, now, parseVars, oldVars,
                   notRimpVars>>

\* the background loop has gone through insertedEmails
RagBackgroundEnd ==
    /\ rimpPc = "background" /\ rimpNext = Len(rimpInserted)
    /\ rimpPc' = "finished"
    /\ UNCHANGED <<rimpUpload, rimpDb, rimpInserted, rimpNext, rimpTrace, rimpResponse, now,
                   parseVars, oldVars, notRimpVars>>

-----------------------------------------------------------------------------
(* routes: extractEventsLocally, the event extraction that asks no service
   (lines 123-190).  A Hangul syllable is one character, written as its romanisation
   in brackets. *)

\* the character at position i, "" past the end
At(t, i) == IF i \in 1..Len(t) THEN t[i] ELSE ""

IsDigitAt(t, i) == At(t, i) \in Range(Digits)

\* how many characters (\d{1,2}) takes at i when what follows it is no digit: 0, 1 or 2
OneOrTwoDigits(t, i) == IF ~IsDigitAt(t, i) THEN 0 ELSE IF IsDigitAt(t, i + 1) THEN 2 ELSE 1

\* where \s* ends when it starts at i
SkipWs(t, i) == Least({j \in i..(Len(t) + 1) : ~IsSpace(At(t, j))})

DigitVal(c) == (CHOOSE i \in 1..10 : Digits[i] = c) - 1

\* parseInt(digits, 10) of one or two digits
ParseInt(ds) == IF Len(ds) = 1 THEN DigitVal(ds[1]) ELSE 10 * DigitVal(ds[1]) + DigitVal(ds[2])

\* (20\d{2})
Year20At(t, i) ==
    At(t, i) = "2" /\ At(t, i + 1) = "0" /\ IsDigitAt(t, i + 2) /\ IsDigitAt(t, i + 3)

\* (?:\s*(\d{1,2}):(\d{2}))? tried at i; the defaults are those of ?? "09" and ?? "00"
TimeAt(t, i) ==
    LET j == SkipWs(t, i)
        n == OneOrTwoDigits(t, j)
    IN  IF n > 0 /\ At(t, j + n) = ":" /\ IsDigitAt(t, j + n + 1) /\ IsDigitAt(t, j + n + 2)
        THEN [hh |-> SubSeq(t, j, j + n - 1), mm |-> SubSeq(t, j + n + 1, j + n + 2)]
        ELSE [hh |-> <<"0","9">>, mm |-> <<"0","0">>]

\* `${y}-${m}-${d} ${hh}:${mm}` with the padStart(2, "0") of each part
StartDate(y, m, d, hh, mm) ==
    y \o <<"-">> \o PadStart0(m, 2) \o <<"-">> \o PadStart0(d, 2) \o <<" ">>
      \o PadStart0(hh, 2) \o <<":">> \o PadStart0(mm, 2)

\* the one event the extractor returns
LocalEvent(subject, body, startDate) ==
    <<[title |-> IF subject = <<>> THEN NoSubject ELSE subject,
       startDate |-> startDate, endDate |-> Null, location |-> Null,
       description |-> IF Slice0(body, 2000) = <<>> THEN Null ELSE Slice0(body, 2000)]>>

\* /(20\d{2})[\/\-\.](\d{1,2})[\/\-\.](\d{1,2})(?:\s*(\d{1,2}):(\d{2}))?/ at i
IsDateSep(c) == c \in {"/", "-", "."}
IsoAt(t, i) ==
    /\ Year20At(t, i) /\ IsDateSep(At(t, i + 4))
    /\ OneOrTwoDigits(t, i + 5) > 0
    /\ IsDateSep(At(t, i + 5 + OneOrTwoDigits(t, i + 5)))
    /\ OneOrTwoDigits(t, i + 6 + OneOrTwoDigits(t, i + 5)) > 0

IsoStart(t, i) ==
    LET n1 == OneOrTwoDigits(t, i + 5)
        n2 == OneOrTwoDigits(t, i + 6 + n1)
        time == TimeAt(t, i + 6 + n1 + n2)
    IN  StartDate(SubSeq(t, i, i + 3), SubSeq(t, i + 5, i + 4 + n1),
                  SubSeq(t, i + 6 + n1, i + 5 + n1 + n2), time.hh, time.mm)

\* (\d{1,2})\s*X at i, X one character: where X is, or 0
NumberThen(t, i, x) ==
    IF OneOrTwoDigits(t, i) > 0 /\ At(t, SkipWs(t, i + OneOrTwoDigits(t, i))) = x
    THEN SkipWs(t, i + OneOrTwoDigits(t, i))
    ELSE 0

\* (\d{1,2})\s*WOL\s*(\d{1,2})\s*IL at i: where IL is, or 0
MonthDayAt(t, i) ==
    IF NumberThen(t, i, "[wol]") = 0 THEN 0
    ELSE NumberThen(t, SkipWs(t, NumberThen(t, i, "[wol]") + 1), "[il]")

\* the month and the day of a match of MonthDayAt at i
MonthOf(t, i) == SubSeq(t, i, i + OneOrTwoDigits(t, i) - 1)
DayOf(t, i) ==
    LET j == SkipWs(t, NumberThen(t, i, "[wol]") + 1)
    IN  SubSeq(t, j, j + OneOrTwoDigits(t, j) - 1)

\* (20\d{2})\s*NYEON\s* followed by the month and the day, at i: where IL is, or 0
KorAt(t, i) ==
    IF Year20At(t, i) /\ At(t, SkipWs(t, i + 4)) = "[nyeon]"
    THEN MonthDayAt(t, SkipWs(t, SkipWs(t, i + 4) + 1))
    ELSE 0

\* (?:\s*(AM|PM))? tried at i: what it captured and where the match goes on
AmPmAt(t, i) ==
    LET j == SkipWs(t, i)
    IN  IF At(t, j) = "[o]" /\ At(t, j + 1) \in {"[jeon]", "[hu]"}
        THEN [half |-> At(t, j + 1), next |-> j + 2]
        ELSE [half |-> "", next |-> i]

\* (?:\s*(\d{1,2})\s*X)? tried at i: the number captured (<<>> if none) and where
\* the match goes on
OptionalNumber(t, i, x) ==
    LET j == SkipWs(t, i)
    IN  IF NumberThen(t, j, x) > 0
        THEN [digits |-> SubSeq(t, j, j + OneOrTwoDigits(t, j) - 1), next |-> NumberThen(t, j, x) + 1]
        ELSE [digits |-> <<>>, next |-> i]

\* lines 153-156: the hour of the day
HourOf(digits, half) ==
    LET hour == IF digits = <<>> THEN 9 ELSE ParseInt(digits)
    IN  IF half = "[hu]" /\ hour < 12 THEN hour + 12
        ELSE IF half = "[jeon]" /\ hour = 12 THEN 0
        ELSE hour

KorStart(t, i) ==
    LET at == SkipWs(t, SkipWs(t, i + 4) + 1)
        half == AmPmAt(t, KorAt(t, i) + 1)
        hour == OptionalNumber(t, half.next, "[si]")
        minute == OptionalNumber(t, hour.next, "[bun]")
    IN  StartDate(SubSeq(t, i, i + 3), MonthOf(t, at), DayOf(t, at),
                  NumStr(HourOf(hour.digits, half.half)),
                  NumStr(IF minute.digits = <<>> THEN 0 ELSE ParseInt(minute.digits)))

\* String(new Date().getFullYear())
ThisYear == <<"2","0","2","6">>

\* (fallbackDate || "").match(/(20\d{2})/), or this year
FallbackYear(fallbackDate) ==
    IF \E i \in 1..Len(fallbackDate) : Year20At(fallbackDate, i)
    THEN LET i == Least({j \in 1..Len(fallbackDate) : Year20At(fallbackDate, j)})
         IN  SubSeq(fallbackDate, i, i + 3)
    ELSE ThisYear

MonthDayStart(t, i, fallbackDate) ==
    LET time == TimeAt(t, MonthDayAt(t, i) + 1)
    IN  StartDate(FallbackYear(fallbackDate), MonthOf(t, i), DayOf(t, i), time.hh, time.mm)

\* extractEventsLocally(subject, body, fallbackDate): the first of the three patterns
\* that matches `${subject}\n${body}`, at its leftmost match
ExtractEventsLocally(subject, body, fallbackDate) ==
    LET t == subject \o <<"\n">> \o body
        isoAt == {i \in 1..Len(t) : IsoAt(t, i)}
        korAt == {i \in 1..Len(t) : KorAt(t, i) > 0}
        mdAt == {i \in 1..Len(t) : MonthDayAt(t, i) > 0}
    IN  IF isoAt # {} THEN LocalEvent(subject, body, IsoStart(t, Least(isoAt)))
        ELSE IF korAt # {} THEN LocalEvent(subject, body, KorStart(t, Least(korAt)))
        ELSE IF mdAt # {} THEN LocalEvent(subject, body, MonthDayStart(t, Least(mdAt), fallbackDate))
        ELSE <<>>

-----------------------------------------------------------------------------
(* routes: POST /api/import, the handler that parses the uploaded files, inserts,
   logs, enriches every inserted email and then answers (lines 310-545).
   The archives uploaded here carry no attachments, and the database accepts the
   insert and the import log; its calls inside the enrichment loop may fail. *)

\* original.toLowerCase().split(".").pop()
Ext(original) ==
    LET dots == {i \in 1..Len(original) : original[i] = "."}
    IN  IF dots = {} THEN ToLower(original) ELSE ToLower(From(original, Greatest(dots) + 1))

\* an email to import
Mail(subject, from, date, body, label) ==
    [subject |-> subject, sender |-> from, date |-> date, body |-> body, label |-> label]

\* for (const e of parsed) if (!e.label) e.label = original;  and line 371
Labelled(mails, original) ==
    [k \in 1..Len(mails) |->
        IF mails[k].label = <<>> THEN [mails[k] EXCEPT !.label = original] ELSE mails[k]]

\* parseEmailsFromJson(content): [] for a text that is no JSON and for JSON that is
\* neither an array nor an object with emails or messages
ParseEmailsFromJson(content) ==
    IF content.shape \in {"array", "emails", "messages"} THEN content.mails ELSE <<>>

\* mutant: every file read as JSON, whatever its name
EmailsOfAnyFile(file) == Labelled(file.content.mails, file.original)

\* what one uploaded file adds to emailsToImport, lines 335-383
EmailsOfFile(file) ==
    IF Ext(file.original) = <<"j","s","o","n">>
    THEN Labelled(ParseEmailsFromJson(file.content), file.original)
    ELSE IF Ext(file.original) = <<"p","s","t">>
    THEN Labelled(file.content.mails, file.original)
    ELSE <<>>

\* the files handed to a parser
Parsed(file) == Ext(file.original) \in {<<"j","s","o","n">>, <<"p","s","t">>}

\* how many warnings one uploaded file adds
WarningsOfFile(file) ==
    IF Ext(file.original) = <<"p","s","t">>
    THEN (IF file.content.errors > 0 THEN 1 ELSE 0) + (IF file.content.mails = <<>> THEN 1 ELSE 0)
    ELSE IF EmailsOfFile(file) = <<>> THEN 1 ELSE 0

\* generateSampleEmails()
GenerateSampleEmails ==
    <<Mail(<<"[hoe]","[ui]"," ","[il]","[jeong]"," ","[an]","[nae]">>, <<"[hyeon]","[jang]","P","M"," ","<","p","m","@","s","h","i","p","y","a","r","d",".","c","o",".","k","r",">">>, <<"2","0","2","5","-","0","1","-","0","6"," ","1","4",":","0","0",":","0","0">>, <<"[da]","[eum]"," ","[ju]"," ","[hwa]","[yo]","[il]","(","1","[wol]"," ","7","[il]",")"," ","[o]","[hu]"," ","2","[si]","[e]"," ","[jeong]","[gi]"," ","[hoe]","[ui]","[ga]"," ","[ye]","[jeong]","[doe]","[eo]"," ","[iss]","[seup]","[ni]","[da]","."," ","[hoe]","[ui]","[sil]"," ","A",".">>, <<>>),
      Mail(<<"[do]","[myeon]"," ","[geom]","[to]"," ","[hoe]","[sin]"," ","[yo]","[cheong]">>, <<"[seol]","[gye]","[tim]"," ","<","d","e","s","i","g","n","@","s","h","i","p","y","a","r","d",".","c","o",".","k","r",">">>, <<"2","0","2","5","-","0","1","-","0","5"," ","0","9",":","3","0",":","0","0">>, <<"1","[wol]"," ","9","[il]"," ","1","0",":","0","0","[kka]","[ji]"," ","[do]","[myeon]"," ","[geom]","[to]"," ","[ui]","[gyeon]"," ","[hoe]","[sin]"," ","[bu]","[tak]","[deu]","[rip]","[ni]","[da]",".">>, <<>>)>>

\* emailsToImport after lines 329-390
EmailsToImport(uploaded) ==
    IF uploaded = <<>> THEN GenerateSampleEmails
    ELSE Flatten([k \in 1..Len(uploaded) |-> EmailsOfFile(uploaded[k])])

\* filename after lines 386-390
ImportFilename(uploaded) ==
    IF uploaded = <<>> THEN <<"s","a","m","p","l","e","_","d","e","m","o","_","d","a","t","a">>
    ELSE Join([k \in 1..Len(uploaded) |-> uploaded[k].original], <<",", " ">>)

\* LocalSQLiteStorage.insertEmailsAndGetIds: the rows with their new ids
InsertedMails(rows, mails) ==
    [k \in 1..Len(mails) |->
        [id |-> Len(rows) + k, subject |-> mails[k].subject, sender |-> mails[k].sender,
         date |-> mails[k].date, body |-> mails[k].body, label |-> mails[k].label,
         classification |-> JNull, confidence |-> JNull, isProcessed |-> FALSE]]

\* v || null of a value that came from the service
OrNull(v) == IF ~Truthy(v) THEN Null ELSE IF v.str # <<>> THEN v.str ELSE <<"[object]">>

\* the event an answer of the service is stored as, lines 501-508
RemoteEvent(e) ==
    [title |-> Get(e, <<"t","i","t","l","e">>).str,
     startDate |-> Get(e, <<"s","t","a","r","t","D","a","t","e">>).str,
     endDate |-> OrNull(Get(e, <<"e","n","d","D","a","t","e">>)),
     location |-> OrNull(Get(e, <<"l","o","c","a","t","i","o","n">>)),
     description |-> OrNull(Get(e, <<"d","e","s","c","r","i","p","t","i","o","n">>))]

\* mutant: the events asked of the service whether or not it is connected
EventsAlwaysRemote(mail, connected, reply) ==
    [k \in 1..Len(ExtractEventsFromEmail(reply)) |-> RemoteEvent(ExtractEventsFromEmail(reply)[k])]

\* const events = ollamaConnected ? await extractEventsFromEmail(...) : extractEventsLocally(...)
EventsFor(mail, connected, reply) ==
    IF connected
    THEN [k \in 1..Len(ExtractEventsFromEmail(reply)) |-> RemoteEvent(ExtractEventsFromEmail(reply)[k])]
    ELSE ExtractEventsLocally(mail.subject, mail.body, mail.date)

\* storage.addCalendarEvent for every event of the email
WithEvents(calendar, id, events) ==
    calendar \o [k \in 1..Len(events) |->
        [emailId |-> id, title |-> events[k].title, startDate |-> events[k].startDate,
         endDate |-> events[k].endDate, location |-> events[k].location,
         description |-> events[k].description]]

\* the body of the enrichment loop for one email when no call of the database fails
Enriched(store, mail, connected, chatReply, eventsReply) ==
    [store EXCEPT
        !.emails[mail.id] =
            IF connected
            THEN [@ EXCEPT !.classification = ClassifyEmail(chatReply).classification,
                           !.confidence = ClassifyEmail(chatReply).confidence,
                           !.isProcessed = TRUE]
            ELSE [@ EXCEPT !.isProcessed = TRUE],
        !.calendar = WithEvents(@, mail.id, EventsFor(mail, connected, eventsReply))]

\* mutant: a loop that stays at the email whose pass ended in the catch
RetryFailed(k, failed) == IF failed THEN k ELSE k + 1

\* for (const email of insertedEmails) { try { ... } catch (err) { console.error } }:
\* the index after the pass for email k, whether or not it ended in the catch
AfterPass(k, failed) == k + 1

\* the calls the pass for one email makes, in order; "catch" is the console.error of
\* line 514
Call(op, n, reply) == [op |-> op, mail |-> n, chunk |-> 0, reply |-> reply]
CallsFor(mail, connected, chatReply, eventsReply, dbOk) ==
    (IF connected THEN <<Call("classify", mail.id, chatReply.kind)>> ELSE <<>>)
        \o (IF connected /\ dbOk THEN <<Call("extract", mail.id, eventsReply.kind)>> ELSE <<>>)
        \o (IF ~connected THEN <<Call("local", mail.id, "none")>> ELSE <<>>)
        \o (IF ~dbOk THEN <<Call("catch", mail.id, "none")>> ELSE <<>>)

\* ---- the uploads

MaxFiles == 2

JsonContent(shape, mails) == [shape |-> shape, mails |-> mails, errors |-> 0]
PstContent(mails, errorCount) == [shape |-> "pst", mails |-> mails, errors |-> errorCount]
File(original, content) == [original |-> original, content |-> content]

FilePool ==
    {File(<<"a",".","j","s","o","n">>, JsonContent("array", <<Mail(<<"H","i">>, <<"a","@","x">>, <<"2","0","2","5","-","0","1","-","0","6">>, <<"2","0","2","5","-","1","-","7"," ","1","4",":","0","0">>, <<>>)>>)),
     File(<<"B",".","J","S","O","N">>, JsonContent("messages", <<Mail(<<>>, <<"b","@","x">>, <<"2","0","2","4","-","1","2","-","0","1">>, <<"3","[wol]"," ","5","[il]">>, <<"I","n","b","o","x">>)>>)),
     File(<<"c",".","j","s","o","n">>, JsonContent("text", <<>>)),
     File(<<"d",".","t","x","t">>, JsonContent("messages", <<Mail(<<"T","x","t">>, <<"a","@","x">>, <<>>, <<"o","k">>, <<>>)>>)),
     File(<<"e",".","p","s","t">>, PstContent(<<Mail(<<"T","r","i","p">>, <<"c","@","x">>, <<>>, <<"2","0","2","5","[nyeon]"," ","3","[wol]"," ","5","[il]"," ","[o]","[hu]"," ","2","[si]">>, <<>>)>>, 1)),
     File(<<"f",".","P","S","T">>, PstContent(<<>>, 1)),
     File(<<"g",".","m","b","o","x">>, JsonContent("array", <<Mail(<<"M","b","o","x">>, <<"a","@","x">>, <<>>, <<"o","k">>, <<>>)>>)),
     File(<<"j","s","o","n">>, JsonContent("array", <<Mail(<<"H","i">>, <<"a","@","x">>, <<>>, <<"o","k">>, <<>>)>>))}

\* the replies of the service during the enrichment loop
ClassifyReplies == {ChatContent(<<"I","t"," ","i","s"," ","a"," ","m","e","e","t","i","n","g",".">>), ChatContent(<<"{","\"","c","l","a","s","s","i","f","i","c","a","t","i","o","n","\"",":","\"","m","e","e","t","i","n","g","\"",",","\"","c","o","n","f","i","d","e","n","c","e","\"",":","\"","h","i","g","h","\"","}">>)}
EventsReplies == {ChatFailure("unreachable"), ChatContent(<<"[","{","\"","t","i","t","l","e","\"",":","\"","K","i","c","k","o","f","f","\"",",","\"","s","t","a","r","t","D","a","t","e","\"",":","\"","2","0","2","4","-","0","5","-","0","1","\"","}","]">>)}

NoStore == [emails |-> <<>>, logs |-> <<>>, calendar |-> <<>>, dirs |-> {}]

ImpIdle ==
    /\ impPc = "idle" /\ impFiles = <<>> /\ impStore = NoStore /\ impInserted = <<>>
    /\ impConnected = FALSE /\ impNext = 0 /\ impTrace = <<>> /\ impResponse = NoResponse

ImpStart ==
    /\ impPc = "request" /\ impFiles \in SeqsUpTo(FilePool, MaxFiles)
    /\ impStore = NoStore /\ impInserted = <<>>
    /\ impConnected = FALSE /\ impNext = 0 /\ impTrace = <<>> /\ impResponse = NoResponse

\* the handler from its first line to checkOllamaConnection, lines 310-482
ImportFiles ==
    /\ impPc = "request"
    /\ LET mails == EmailsToImport(impFiles)
           dirs == IF \E k \in 1..Len(impFiles) : Ext(impFiles[k].original) = <<"p","s","t">>
                   THEN {"attachments"} ELSE {}
           parses == Flatten([k \in 1..Len(impFiles) |->
                         IF Parsed(impFiles[k]) THEN <<Call("parse", k, "none")>> ELSE <<>>])
       IN  IF mails = <<>>
           THEN /\ impResponse' = Responded(400, FALSE, 0)
                /\ impStore' = [impStore EXCEPT !.dirs = @ \cup dirs]
                /\ impTrace' = impTrace \o parses \o <<Call("respond", 0, "none")>>
                /\ impPc' = "done"
                /\ UNCHANGED <<impInserted, impConnected>>
           ELSE /\ impInserted' = InsertedMails(impStore.emails, mails)
                /\ impStore' = [impStore EXCEPT
                       !.emails = @ \o impInserted',
                       !.logs = Append(@, [filename |-> ImportFilename(impFiles),
                                           emailsImported |-> Len(mails)]),
                       !.dirs = {"attachments"}]
                /\ impConnected' \in BOOLEAN
                /\ impTrace' = impTrace \o parses
                       \o <<Call("persist", 0, "none"), Call("log", 0, "none"),
                            Call("check", 0, "none")>>
                /\ impPc' = "enrich"
                /\ UNCHANGED impResponse
    /\ UNCHANGED <<impFiles, impNext, now, parseVars, oldVars, notImpVars>>

\* one pass of the enrichment loop, lines 484-516
EnrichEmail ==
    /\ impPc = "enrich" /\ impNext < Len(impInserted)
    /\ \E chatReply \in ClassifyReplies, eventsReply \in EventsReplies, dbOk \in BOOLEAN :
           /\ impStore' = IF dbOk
                          THEN Enriched(impStore, impInserted[impNext + 1], impConnected,
                                        chatReply, eventsReply)
                          ELSE impStore
           /\ impTrace' = impTrace \o CallsFor(impInserted[impNext + 1], impConnected,
                                               chatReply, eventsReply, dbOk)
           /\ impNext' = AfterPass(impNext, ~dbOk)
    /\ UNCHANGED <<impPc, impFiles, impInserted, impConnected, impResponse, now, parseVars,
                   oldVars, notImpVars>>

\* the answer after the loop, lines 518-536
ImportRespond ==
    /\ impPc = "enrich" /\ impNext = Len(impInserted)
    /\ impResponse' = Responded(200, TRUE, Len(impInserted))
    /\ impTrace' = Append(impTrace, Call("respond", 0, "none"))
    /\ impPc' = "done"
    /\ UNCHANGED <<impFiles, impStore, impInserted, impConnected, impNext, now, parseVars,
                   oldVars, notImpVars>>

-----------------------------------------------------------------------------
(* storage: insertEmailsAndGetIds in its three forms: one INSERT statement (storage
   lines 73-77), batches inside one transaction (part_001 lines 240-255), and one
   prepared statement run per record with no transaction (local-storage lines 853-892) *)

\* the first record whose insert throws, 0 when none does
FirstFailing(records) ==
    IF \A k \in 1..Len(records) : ~records[k].fails THEN 0
    ELSE Least({k \in 1..Len(records) : records[k].fails})

\* the rows the records become, with the ids after those of the table
NewRows(rows, records) ==
    [k \in 1..Len(records) |-> [id |-> Len(rows) + k, subject |-> records[k].subject]]

\* db.insert(emails).values(emailsToInsert).returning(): one statement, all or nothing
InsertStatement(rows, records) ==
    IF FirstFailing(records) = 0
    THEN [rows |-> rows \o NewRows(rows, records), threw |-> FALSE, returned |-> NewRows(rows, records)]
    ELSE [rows |-> rows, threw |-> TRUE, returned |-> <<>>]

\* const batchSize = 100
BatchSize == 100

\* the batches of lines 247-248
Batches(records) ==
    [b \in 1..((Len(records) + BatchSize - 1) \div BatchSize) |->
        SubSeq(records, (b - 1) * BatchSize + 1, Min(Len(records), b * BatchSize))]

\* db.transaction(async (tx) => { for each batch: tx.insert(...) }): a throw in any
\* batch rolls the whole transaction back
InsertInTransaction(rows, records) ==
    IF \A b \in 1..Len(Batches(records)) : FirstFailing(Batches(records)[b]) = 0
    THEN [rows |-> rows \o NewRows(rows, records), threw |-> FALSE, returned |-> NewRows(rows, records)]
    ELSE [rows |-> rows, threw |-> TRUE, returned |-> <<>>]

\* for (const email of emailsToInsert) { insert.run(...); results.push(...) }: each
\* run commits on its own, and a throw leaves the loop
InsertOneByOne(rows, records) ==
    IF FirstFailing(records) = 0
    THEN [rows |-> rows \o NewRows(rows, records), threw |-> FALSE, returned |-> NewRows(rows, records)]
    ELSE [rows |-> rows \o NewRows(rows, SubSeq(records, 1, FirstFailing(records) - 1)),
          threw |-> TRUE, returned |-> <<>>]

MaxRecords == 3

RecordPool == {[subject |-> <<"a">>, fails |-> FALSE], [subject |-> <<"b">>, fails |-> FALSE],
               [subject |-> <<"c">>, fails |-> TRUE]}

NoInsert == [called |-> "none", threw |-> FALSE, returned |-> <<>>]

InsIdle == insRows = <<>> /\ insBefore = <<>> /\ insRecords = <<>> /\ insCall = NoInsert

InsStart ==
    /\ insRows \in {<<>>, <<[id |-> 1, subject |-> <<"z">>]>>}
    /\ insBefore = insRows
    /\ insRecords \in SeqsUpTo(RecordPool, MaxRecords)
    /\ insCall = NoInsert

\* DatabaseStorage.insertEmailsAndGetIds of storage
InsertEmailsStatement ==
    /\ insCall.called = "none"
    /\ insRows' = (IF insRecords = <<>> THEN insRows ELSE InsertStatement(insRows, insRecords).rows)
    /\ insCall' = [called |-> "statement",
                   threw |-> insRecords # <<>> /\ InsertStatement(insRows, insRecords).threw,
                   returned |-> IF insRecords = <<>> THEN <<>>
                                ELSE InsertStatement(insRows, insRecords).returned]
    /\ UNCHANGED <<insBefore, insRecords, now, parseVars, oldVars, notInsVars>>

\* DatabaseStorage.insertEmailsAndGetIds of part_001
InsertEmailsInTransaction ==
    /\ insCall.called = "none"
    /\ insRows' = (IF insRecords = <<>> THEN insRows ELSE InsertInTransaction(insRows, insRecords).rows)
    /\ insCall' = [called |-> "transaction",
                   threw |-> insRecords # <<>> /\ InsertInTransaction(insRows, insRecords).threw,
                   returned |-> IF insRecords = <<>> THEN <<>>
                                ELSE InsertInTransaction(insRows, insRecords).returned]
    /\ UNCHANGED <<insBefore, insRecords, now, parseVars, oldVars, notInsVars>>

\* LocalSQLiteStorage.insertEmailsAndGetIds
InsertEmailsOneByOne ==
    /\ insCall.called = "none"
    /\ insRows' = (IF insRecords = <<>> THEN insRows ELSE InsertOneByOne(insRows, insRecords).rows)
    /\ insCall' = [called |-> "onebyone",
                   threw |-> insRecords # <<>> /\ InsertOneByOne(insRows, insRecords).threw,
                   returned |-> IF insRecords = <<>> THEN <<>>
                                ELSE InsertOneByOne(insRows, insRecords).returned]
    /\ UNCHANGED <<insBefore, insRecords, now, parseVars, oldVars, notInsVars>>

-----------------------------------------------------------------------------
(* routes: chunkString, one iteration of its while loop at a time (lines 891-902) *)

\* mutant: a window that does not move
StayAtStart(start, size, overlap) == start

\* start += size - overlap
NextStart(start, size, overlap) == start + size - overlap

LoopIdle ==
    /\ loopPc = "idle" /\ loopInput = NoChunkInput /\ loopStart = 0 /\ loopChunks = <<>>

LoopBegin ==
    /\ loopPc = "run"
    /\ loopInput \in {in \in ChunkInputs : in.overlap < in.size} \cup {LongInput}
    /\ loopStart = 0 /\ loopChunks = <<>>

\* if (!str) return [];  and the while condition found false
ChunkReturn ==
    /\ loopPc = "run" /\ loopStart >= Len(loopInput.text)
    /\ loopPc' = "done"
    /\ UNCHANGED <<loopInput, loopStart, loopChunks, now, parseVars, oldVars, notLoopVars>>

\* one iteration of the loop, lines 896-899
ChunkIterate ==
    /\ loopPc = "run" /\ loopStart < Len(loopInput.text)
    /\ LET end == Min(loopStart + loopInput.size, Len(loopInput.text))
       IN  /\ loopChunks' = Append(loopChunks, SubSeq(loopInput.text, loopStart + 1, end))
           /\ IF end = Len(loopInput.text)
              THEN loopPc' = "done" /\ UNCHANGED loopStart
              ELSE /\ loopStart' = NextStart(loopStart, loopInput.size, loopInput.overlap)
                   /\ UNCHANGED loopPc
    /\ UNCHANGED <<loopInput, now, parseVars, oldVars, notLoopVars>>

-----------------------------------------------------------------------------
(* part_003: normalizeBody applied to a text and again to its own result
   (lines 383-401) *)

MaxNormLines == 3

\* lines a text is made of: header-key lines, prose, prose with white space after it,
\* blank lines, and a line whose white space hides a carriage return
NormLinePool ==
    { <<"F","r","o","m",":"," ","a">>, <<"T","o",":"," ","b">>, <<"x">>,
      <<"x"," ","\t">>, <<>>, <<" ">>, <<"x","\r"," ">> }

\* a block of n header-key lines and the blank line that ends it
HeaderBlock(n) == [j \in 1..n |-> HeaderLineOf(1, j)] \o << <<>> >>

NormTexts ==
    { Join((IF n = 0 THEN <<>> ELSE HeaderBlock(n)) \o lines, <<"\n">>) :
        n \in {0, HeaderThreshold, ScanLimit + 1},
        lines \in UNION { [1..k -> NormLinePool] : k \in 0..MaxNormLines } }

NormIdle == normPc = "idle" /\ normText = <<>> /\ normOnce = <<>> /\ normTwice = <<>>

NormStart ==
    /\ normPc = "start" /\ normText \in NormTexts
    /\ normOnce = <<>> /\ normTwice = <<>>

\* normalizeBody(text)
NormalizeOnce ==
    /\ normPc = "start"
    /\ normOnce' = NormalizeBody(normText)
    /\ normPc' = "once"
    /\ UNCHANGED <<normText, normTwice, now, parseVars, oldVars, notNormVars>>

\* normalizeBody of the text normalizeBody returned
NormalizeAgain ==
    /\ normPc = "once"
    /\ normTwice' = NormalizeBody(normOnce)
    /\ normPc' = "twice"
    /\ UNCHANGED <<normText, normOnce, now, parseVars, oldVars, notNormVars>>

-----------------------------------------------------------------------------
(* part_003: decodeText on one text (lines 232-272) *)

MaxDecodeLen == 3

\* a letter, a space, a control character, U+FFFD and the bytes of the CP949 table
DecodeAlphabet == {"a", " ", "^A", "FFFD", "xA1", "xB0", "xFD"}

DecodeTexts == UNION { [1..k -> DecodeAlphabet] : k \in 0..MaxDecodeLen }

NotDecoded == [done |-> FALSE, value |-> <<>>]

DecIdle == decText = <<>> /\ decoded = NotDecoded

DecStart == decText \in DecodeTexts /\ decoded = NotDecoded

\* decodeText(text)
DecodeOne ==
    /\ ~decoded.done
    /\ decoded' = [done |-> TRUE, value |-> DecodeText(decText)]
    /\ UNCHANGED <<decText, now, parseVars, oldVars, notDecVars>>

-----------------------------------------------------------------------------
(* part_003: extractBody on one message (lines 407-436) *)

\* what may stand before the text of a field: nothing, white space, an injected
\* header block
FieldLeads == { <<>>, <<" ", "\n">>, <<"F","r","o","m",":"," ","a","\n","T","o",":"," ","b","\n","C","c",":"," ","c","\n","\n">> }

\* plain text, markup that converts to text, markup that converts to nothing
FieldCores == { <<>>, <<"h","i"," ">>, <<"<","p",">","h","i","<","/","p",">">>, <<"<","b","r",">">>, <<"h","i","<","b","r",">","y","o">>, <<"<","s","p","a","n",">","<","/","s","p","a","n",">">> }

HtmlFields == { <<>>, <<" ">>, <<"<","p",">","y","o","<","/","p",">">>, <<"<","b","r",">">>, <<"<","b",">","y","o","<","/","b",">"," ","x">> }

BodyMessages ==
    { [body |-> lead \o core, bodyHTML |-> html] :
        lead \in FieldLeads, core \in FieldCores, html \in HtmlFields }

NotExtracted == [done |-> FALSE, value |-> <<>>]

BodyIdle == bodyMsg = [body |-> <<>>, bodyHTML |-> <<>>] /\ extracted = NotExtracted

BodyStart == bodyMsg \in BodyMessages /\ extracted = NotExtracted

\* extractBody(email)
ExtractMessageBody ==
    /\ ~extracted.done
    /\ extracted' = [done |-> TRUE, value |-> ExtractBody(bodyMsg)]
    /\ UNCHANGED <<bodyMsg, now, parseVars, oldVars, notBodyVars>>

-----------------------------------------------------------------------------
(* routes: POST /api/import on archives with attachments: the archives are parsed one
   after the other into _pst/<key>/..., the messages are inserted, and the saved files
   are moved to email_<id>/... and recorded in email_attachments (lines 347-473).  The
   enrichment loop and the answer that follow (NextImp) write no attachment row *)

MaxUploads == 2

\* the files below attachmentsRoot: a set of [path, content], one content per path;
\* content names the attachment whose bytes the file holds
OnDisk(disk, p) == \E d \in disk : d.path = p
ContentAt(disk, p) == (CHOOSE d \in disk : d.path = p).content
Removed(disk, p) == {d \in disk : d.path # p}
Written(disk, p, c) == Removed(disk, p) \cup {[path |-> p, content |-> c]}

\* writeNodeInputStreamToFile for the attachments saved of message k of upload f
RECURSIVE WriteSaved(_, _, _, _, _)
WriteSaved(disk, refs, j, f, k) ==
    IF j > Len(refs) THEN disk
    ELSE WriteSaved(Written(disk, refs[j].relPath, [file |-> f, msg |-> k, index |-> j]),
                    refs, j + 1, f, k)

\* parsePSTFromBuffer(file.buffer, original, {saveAttachments: true, attachmentsDir}) on
\* an archive whose messages all parse: msgs[k] holds the attachments of message k.
\* The outcomes differ in what Date.now() returns at lines 598 and 556, from reading
\* t on; parsed is the emails array of this call
RECURSIVE ParseOutcomes(_, _, _, _, _, _)
ParseOutcomes(f, msgs, k, t, parsed, disk) ==
    IF k > Len(msgs) THEN {[parsed |-> parsed, disk |-> disk, now |-> t]}
    ELSE UNION {
           LET att == ExtractAttachments(msgs[k], Tail(ts), SaveOptions, "none",
                                         EmailKey(Len(parsed), ts[1]))
           IN  ParseOutcomes(f, msgs, k + 1, ts[Len(ts)],
                             Append(parsed, [source |-> <<f, k>>, attachments |-> att.out]),
                             WriteSaved(disk, att.out, 1, f, k))
           : ts \in Rising(Len(msgs[k]) + 1, t, MaxTick)}

\* path.join("email_" + inserted.id) and path.join(emailFolderRel, storedName)
EmailFolder(id) == <<"e","m","a","i","l","_">> \o NumStr(id)
DestRel(id, storedName) == <<EmailFolder(id), storedName>>

\* the loop over tempAtts, lines 426-462, from attachment j on; failAt is the
\* attachment at which moving the file or extracting its text throws (0: none)
RECURSIVE MoveAttachments(_, _, _, _, _, _)
MoveAttachments(id, atts, j, disk, moved, failAt) ==
    IF j > Len(atts) THEN [disk |-> disk, moved |-> moved, threw |-> FALSE]
    ELSE IF ~OnDisk(disk, atts[j].relPath)
    THEN MoveAttachments(id, atts, j + 1, disk, moved, failAt)
    ELSE IF j = failAt THEN [disk |-> disk, moved |-> moved, threw |-> TRUE]
    ELSE MoveAttachments(id, atts, j + 1,
             Written(Removed(disk, atts[j].relPath), DestRel(id, atts[j].storedName),
                     ContentAt(disk, atts[j].relPath)),
             Append(moved, [filename |-> atts[j].storedName,
                            relPath |-> DestRel(id, atts[j].storedName),
                            originalName |-> atts[j].originalName]),
             failAt)

\* addEmailAttachments(emailId, attachments): one row per attachment
RowsFor(emailId, moved) ==
    [n \in 1..Len(moved) |->
        [emailId |-> emailId, filename |-> moved[n].filename, relPath |-> moved[n].relPath,
         originalName |-> moved[n].originalName]]

\* the loop over insertedEmails, lines 415-468, from i on, inside the try of line 410:
\* fail = <<i, j>> makes attachment j of email i throw, which ends the loop
RECURSIVE AttachAll(_, _, _, _, _, _)
AttachAll(inserted, toImport, i, disk, rows, fail) ==
    IF i > Len(inserted) THEN [disk |-> disk, rows |-> rows, threw |-> FALSE]
    ELSE LET r == MoveAttachments(inserted[i].id, toImport[i].attachments, 1, disk, <<>>,
                                  IF fail[1] = i THEN fail[2] ELSE 0)
         IN  IF r.threw THEN [disk |-> r.disk, rows |-> rows, threw |-> TRUE]
             ELSE AttachAll(inserted, toImport, i + 1, r.disk,
                            rows \o RowsFor(inserted[i].id, r.moved), fail)

\* an attachment of an archive, by its name
Named(name) == [longFilename |-> <<>>, filename |-> name, fault |-> "none"]

\* the messages of an archive: each has no attachment, one, or two of the same name
MessageAttachments ==
    { <<>>, <<Named(<<"r",".","t","x","t">>)>>, <<Named(<<"s",".","t","x","t">>)>>,
      <<Named(<<"r",".","t","x","t">>), Named(<<"r",".","t","x","t">>)>> }

\* an uploaded file: a JSON export with one message, or an archive of one or two
UploadPool ==
    {[kind |-> "json", msgs |-> << <<>> >>]}
      \cup {[kind |-> "pst", msgs |-> m] :
               m \in UNION {[1..n -> MessageAttachments] : n \in 1..2}}

AimpIdle ==
    /\ aimpPc = "idle" /\ aimpUploads = <<>> /\ aimpNext = 0 /\ aimpToImport = <<>>
    /\ aimpDisk = {} /\ aimpEmails = <<>> /\ aimpRows = <<>>

AimpStart ==
    /\ aimpPc = "parse"
    /\ aimpUploads \in UNION {[1..n -> UploadPool] : n \in 1..MaxUploads}
    /\ aimpNext = 1 /\ aimpToImport = <<>>
    /\ aimpDisk = {} /\ aimpEmails = <<>> /\ aimpRows = <<>>

\* one iteration of the loop over req.files, lines 330-383
ParseUpload ==
    /\ aimpPc = "parse" /\ aimpNext <= Len(aimpUploads)
    /\ LET file == aimpUploads[aimpNext]
       IN  IF file.kind = "json"
           THEN /\ aimpToImport' = Append(aimpToImport,
                                          [source |-> <<aimpNext, 1>>, attachments |-> <<>>])
                /\ UNCHANGED <<aimpDisk, now>>
           ELSE \E o \in ParseOutcomes(aimpNext, file.msgs, 1, now, <<>>, aimpDisk) :
                    /\ aimpToImport' = aimpToImport \o o.parsed
                    /\ aimpDisk' = o.disk
                    /\ now' = o.now
    /\ aimpNext' = aimpNext + 1
    /\ UNCHANGED <<aimpPc, aimpUploads, aimpEmails, aimpRows, parseVars, oldVars, notAimpVars>>

\* insertEmailsAndGetIds and the attachment pass, lines 404-473
StoreAttachments ==
    /\ aimpPc = "parse" /\ aimpNext > Len(aimpUploads)
    /\ LET inserted == [i \in 1..Len(aimpToImport) |->
                           [id |-> i, source |-> aimpToImport[i].source]]
       IN  /\ aimpEmails' = inserted
           /\ \E fail \in {<<0, 0>>} \cup
                          {<<i, j>> \in (1..Len(aimpToImport)) \X (1..MaxAttachments) :
                               j <= Len(aimpToImport[i].attachments)} :
                  LET r == AttachAll(inserted, aimpToImport, 1, aimpDisk, <<>>, fail)
                  IN  aimpDisk' = r.disk /\ aimpRows' = r.rows
    /\ aimpPc' = "done"
    /\ UNCHANGED <<aimpUploads, aimpNext, aimpToImport, now, parseVars, oldVars, notAimpVars>>

-----------------------------------------------------------------------------
(* storage: DatabaseStorage.getAppSetting / setAppSetting, several calls on one key in
   flight at once; each await is a point at which another call may run
   (storage.ts lines 200-211) *)

MaxCalls == 3

SettingKey == "storage_config"

\* the value call c writes
ValueOf(c) == <<"config", c>>

NoCall == [pc |-> "get", existing |-> Null]

\* the rows of app_settings with the key; key is declared unique
RowsOfKey(table, key) == {r \in table : r.key = key}

SetIdle == settings = {} /\ setCalls = <<>>

\* the table is empty or holds the key already; two calls or more are made
SetStart ==
    /\ settings \in {{}, {[key |-> SettingKey, value |-> <<"config", 0>>]}}
    /\ setCalls \in UNION {[1..n -> {NoCall}] : n \in 2..MaxCalls}

\* const existing = await this.getAppSetting(key)
GetAppSetting ==
    \E c \in 1..Len(setCalls) :
        /\ setCalls[c].pc = "get"
        /\ setCalls' = [setCalls EXCEPT ![c] =
               [pc |-> "write",
                existing |-> IF RowsOfKey(settings, SettingKey) = {} THEN Null
                             ELSE (CHOOSE r \in RowsOfKey(settings, SettingKey) : TRUE).value]]
        /\ UNCHANGED <<settings, now, parseVars, oldVars, notSetVars>>

\* await db.update(appSettings).set({ value }).where(eq(appSettings.key, key))
UpdateAppSetting ==
    \E c \in 1..Len(setCalls) :
        /\ setCalls[c].pc = "write" /\ setCalls[c].existing # Null
        /\ settings' = {IF r.key = SettingKey THEN [r EXCEPT !.value = ValueOf(c)] ELSE r :
                            r \in settings}
        /\ setCalls' = [setCalls EXCEPT ![c].pc = "done"]
        /\ UNCHANGED <<now, parseVars, oldVars, notSetVars>>

\* await db.insert(appSettings).values({ key, value }): the unique constraint on key
\* rejects a second row
InsertAppSetting ==
    \E c \in 1..Len(setCalls) :
        /\ setCalls[c].pc = "write" /\ setCalls[c].existing = Null
        /\ IF RowsOfKey(settings, SettingKey) = {}
           THEN /\ settings' = settings \cup {[key |-> SettingKey, value |-> ValueOf(c)]}
                /\ setCalls' = [setCalls EXCEPT ![c].pc = "done"]
           ELSE /\ setCalls' = [setCalls EXCEPT ![c].pc = "failed"]
                /\ UNCHANGED settings
        /\ UNCHANGED <<now, parseVars, oldVars, notSetVars>>

-----------------------------------------------------------------------------
(* The classification and the processed flag of the emails table under the handlers
   that write them: POST /api/import (routes lines 404-516 and local-storage lines
   1487-1542), /api/emails/:id/classify, /api/emails/classify-all,
   /api/process/unprocessed and /api/emails/:id/update.  A request runs from its first
   line to its response *)

MaxProcEmails == 2
MaxRequests == 3

\* a row as insertEmailsAndGetIds writes it
UnclassifiedRow == [classification |-> JNull, confidence |-> JNull, isProcessed |-> FALSE]

\* what the service answers to classifyEmail
ProcReplies ==
    {ChatContent(<<"{","\"","c","l","a","s","s","i","f","i","c","a","t","i","o","n","\"",":","\"","m","e","e","t","i","n","g","\"",",","\"","c","o","n","f","i","d","e","n","c","e","\"",":","\"","h","i","g","h","\"","}">>),
     ChatContent(<<"{","\"","c","l","a","s","s","i","f","i","c","a","t","i","o","n","\"",":","\"","\"",",","\"","c","o","n","f","i","d","e","n","c","e","\"",":","\"","\"","}">>),
     ChatFailure("unreachable")}

\* where a pass may throw: nowhere, in updateEmailClassification, or after it and
\* before markEmailProcessed has run
PassFaults == {"none", "update", "later"}

\* the classification values a client may send to /api/emails/:id/update
ManualValues == {JUndefined, JNull, JString(<<>>), JString(<<" ">>), JString(<<"t","a","s","k">>)}

\* UPDATE emails SET classification = ?, classification_confidence = ? WHERE id = ?
UpdateEmailClassification(row, cls) ==
    [row EXCEPT !.classification = cls.classification, !.confidence = cls.confidence]

\* UPDATE emails SET is_processed = 'true' WHERE id = ?
MarkEmailProcessed(row) == [row EXCEPT !.isProcessed = TRUE]

\* the statements of a pass from updateEmailClassification to markEmailProcessed
StoreThenMark(row, cls, fault) ==
    CASE fault = "update" -> row
      [] fault = "later" -> UpdateEmailClassification(row, cls)
      [] OTHER -> MarkEmailProcessed(UpdateEmailClassification(row, cls))

\* one pass of the loop of routes lines 484-516
EnrichPass(row, connected, reply, fault) ==
    IF connected THEN StoreThenMark(row, ClassifyEmail(reply), fault)
    ELSE IF fault = "none" THEN MarkEmailProcessed(row) ELSE row

\* one pass of the loop of local-storage lines 1487-1540
CheckedPass(row, reply, fault) ==
    IF ~Truthy(ClassifyEmail(reply).classification) THEN row
    ELSE StoreThenMark(row, ClassifyEmail(reply), fault)

\* email.classification && email.classification.trim() !== ""
AlreadyClassified(row) ==
    Truthy(row.classification) /\ Trim(row.classification.str) # <<>>

\* one pass of the loop of classify-all, lines 1950-1986
ClassifyAllPass(row, reply, fault) ==
    IF AlreadyClassified(row) THEN (IF fault = "none" THEN MarkEmailProcessed(row) ELSE row)
    ELSE CheckedPass(row, reply, fault)

\* one pass of the loop of process/unprocessed, lines 2075-2138
ProcessPass(row, reply, fault) ==
    IF AlreadyClassified(row) THEN (IF fault = "none" THEN MarkEmailProcessed(row) ELSE row)
    ELSE IF \/ ~Truthy(ClassifyEmail(reply).classification)
            \/ Trim(ClassifyEmail(reply).classification.str) = <<>> THEN row
    ELSE StoreThenMark(row, ClassifyEmail(reply), fault)

\* the updates object of lines 1841-1847 applied by updateEmailMetadata
UpdateEmailMetadata(row, classification) ==
    IF classification = JUndefined THEN row
    ELSE [row EXCEPT !.classification = IF classification = JNull THEN JNull ELSE classification,
                     !.confidence = IF Truthy(classification)
                                    THEN JString(<<"m","a","n","u","a","l">>) ELSE JNull]

ProcIdle == procEmails = <<>> /\ procLast = "none" /\ procCount = 0

\* POST /api/import of routes: the rows are inserted, then every one gets a pass
ImportAndEnrich ==
    /\ procCount < MaxRequests
    /\ \E n \in 1..(MaxProcEmails - Len(procEmails)) :
       \E connected \in BOOLEAN :
       \E outcome \in [1..n -> ProcReplies \X PassFaults] :
           procEmails' = procEmails \o
               [k \in 1..n |-> EnrichPass(UnclassifiedRow, connected, outcome[k][1], outcome[k][2])]
    /\ procLast' = "import" /\ procCount' = procCount + 1
    /\ UNCHANGED <<now, parseVars, oldVars, notProcVars>>

\* POST /api/import of local-storage: the loop runs only when the service is connected
ImportAndEnrichChecked ==
    /\ procCount < MaxRequests
    /\ \E n \in 1..(MaxProcEmails - Len(procEmails)) :
       \E connected \in BOOLEAN :
       \E outcome \in [1..n -> ProcReplies \X PassFaults] :
           procEmails' = procEmails \o
               [k \in 1..n |-> IF connected
                               THEN CheckedPass(UnclassifiedRow, outcome[k][1], outcome[k][2])
                               ELSE UnclassifiedRow]
    /\ procLast' = "import-checked" /\ procCount' = procCount + 1
    /\ UNCHANGED <<now, parseVars, oldVars, notProcVars>>

\* POST /api/emails/:id/classify, lines 1866-1932
ClassifyOne ==
    /\ procCount < MaxRequests
    /\ \E id \in 1..Len(procEmails) :
       \E connected \in BOOLEAN, reply \in ProcReplies, fault \in PassFaults :
           procEmails' = [procEmails EXCEPT ![id] =
               IF ~connected \/ AlreadyClassified(@) THEN @ ELSE CheckedPass(@, reply, fault)]
    /\ procLast' = "classify" /\ procCount' = procCount + 1
    /\ UNCHANGED <<now, parseVars, oldVars, notProcVars>>

\* POST /api/emails/classify-all, lines 1935-2000: a pass for every row of
\* getUnprocessedEmails
ClassifyAll ==
    /\ procCount < MaxRequests
    /\ \E connected \in BOOLEAN :
       \E outcome \in [1..Len(procEmails) -> ProcReplies \X PassFaults] :
           procEmails' = [id \in 1..Len(procEmails) |->
               IF ~connected \/ procEmails[id].isProcessed THEN procEmails[id]
               ELSE ClassifyAllPass(procEmails[id], outcome[id][1], outcome[id][2])]
    /\ procLast' = "classify-all" /\ procCount' = procCount + 1
    /\ UNCHANGED <<now, parseVars, oldVars, notProcVars>>

\* POST /api/process/unprocessed, lines 2061-2145
ProcessUnprocessed ==
    /\ procCount < MaxRequests
    /\ \E connected \in BOOLEAN :
       \E outcome \in [1..Len(procEmails) -> ProcReplies \X PassFaults] :
           procEmails' = [id \in 1..Len(procEmails) |->
               IF ~connected \/ procEmails[id].isProcessed THEN procEmails[id]
               ELSE ProcessPass(procEmails[id], outcome[id][1], outcome[id][2])]
    /\ procLast' = "process" /\ procCount' = procCount + 1
    /\ UNCHANGED <<now, parseVars, oldVars, notProcVars>>

\* POST /api/emails/:id/update, lines 1807-1864
UpdateEmail ==
    /\ procCount < MaxRequests
    /\ \E id \in 1..Len(procEmails) :
       \E classification \in ManualValues :
           procEmails' = [procEmails EXCEPT ![id] = UpdateEmailMetadata(@, classification)]
    /\ procLast' = "update" /\ procCount' = procCount + 1
    /\ UNCHANGED <<now, parseVars, oldVars, notProcVars>>

-----------------------------------------------------------------------------
(* Specifications *)

OldIdle == ParseIdle /\ NameIdle /\ StripIdle /\ SenderIdle /\ SearchIdle
LaterIdle == RagIdle /\ ChunkIdle /\ LlmIdle /\ RimpIdle /\ ImpIdle /\ InsIdle /\ LoopIdle /\ NormIdle /\ DecIdle /\ BodyIdle /\ AimpIdle /\ SetIdle /\ ProcIdle
InitRag == RagIdle /\ now = 0 /\ OldIdle /\ ChunkIdle /\ LlmIdle /\ RimpIdle /\ ImpIdle /\ InsIdle /\ LoopIdle /\ NormIdle /\ DecIdle /\ BodyIdle /\ AimpIdle /\ SetIdle /\ ProcIdle
InitChunk == ChunkStart /\ now = 0 /\ OldIdle /\ RagIdle /\ LlmIdle /\ RimpIdle /\ ImpIdle /\ InsIdle /\ LoopIdle /\ NormIdle /\ DecIdle /\ BodyIdle /\ AimpIdle /\ SetIdle /\ ProcIdle
InitLlm == LlmStart /\ now = 0 /\ OldIdle /\ RagIdle /\ ChunkIdle /\ RimpIdle /\ ImpIdle /\ InsIdle /\ LoopIdle /\ NormIdle /\ DecIdle /\ BodyIdle /\ AimpIdle /\ SetIdle /\ ProcIdle
InitRimp == RimpStart /\ now = 0 /\ OldIdle /\ RagIdle /\ ChunkIdle /\ LlmIdle /\ ImpIdle /\ InsIdle /\ LoopIdle /\ NormIdle /\ DecIdle /\ BodyIdle /\ AimpIdle /\ SetIdle /\ ProcIdle
InitImp == ImpStart /\ now = 0 /\ OldIdle /\ RagIdle /\ ChunkIdle /\ LlmIdle /\ RimpIdle /\ InsIdle /\ LoopIdle /\ NormIdle /\ DecIdle /\ BodyIdle /\ AimpIdle /\ SetIdle /\ ProcIdle
InitIns == InsStart /\ now = 0 /\ OldIdle /\ RagIdle /\ ChunkIdle /\ LlmIdle /\ RimpIdle /\ ImpIdle /\ LoopIdle /\ NormIdle /\ DecIdle /\ BodyIdle /\ AimpIdle /\ SetIdle /\ ProcIdle
InitLoop == LoopBegin /\ now = 0 /\ OldIdle /\ RagIdle /\ ChunkIdle /\ LlmIdle /\ RimpIdle /\ ImpIdle /\ InsIdle /\ NormIdle /\ DecIdle /\ BodyIdle /\ AimpIdle /\ SetIdle /\ ProcIdle
InitNorm == NormStart /\ now = 0 /\ OldIdle /\ RagIdle /\ ChunkIdle /\ LlmIdle /\ RimpIdle /\ ImpIdle /\ InsIdle /\ LoopIdle /\ DecIdle /\ BodyIdle /\ AimpIdle /\ SetIdle /\ ProcIdle
InitDec == DecStart /\ now = 0 /\ OldIdle /\ RagIdle /\ ChunkIdle /\ LlmIdle /\ RimpIdle /\ ImpIdle /\ InsIdle /\ LoopIdle /\ NormIdle /\ BodyIdle /\ AimpIdle /\ SetIdle /\ ProcIdle
InitBody == BodyStart /\ now = 0 /\ OldIdle /\ RagIdle /\ ChunkIdle /\ LlmIdle /\ RimpIdle /\ ImpIdle /\ InsIdle /\ LoopIdle /\ NormIdle /\ DecIdle /\ AimpIdle /\ SetIdle /\ ProcIdle
InitAimp == AimpStart /\ now = 0 /\ OldIdle /\ RagIdle /\ ChunkIdle /\ LlmIdle /\ RimpIdle /\ ImpIdle /\ InsIdle /\ LoopIdle /\ NormIdle /\ DecIdle /\ BodyIdle /\ SetIdle /\ ProcIdle
InitSet == SetStart /\ now = 0 /\ OldIdle /\ RagIdle /\ ChunkIdle /\ LlmIdle /\ RimpIdle /\ ImpIdle /\ InsIdle /\ LoopIdle /\ NormIdle /\ DecIdle /\ BodyIdle /\ AimpIdle /\ ProcIdle
InitProc == ProcIdle /\ now = 0 /\ OldIdle /\ RagIdle /\ ChunkIdle /\ LlmIdle /\ RimpIdle /\ ImpIdle /\ InsIdle /\ LoopIdle /\ NormIdle /\ DecIdle /\ BodyIdle /\ AimpIdle /\ SetIdle

Init == (\E a \in Archives : ParseStart(a)) /\ NameIdle /\ StripIdle /\ SenderIdle /\ SearchIdle /\ LaterIdle
InitAtt == (\E a \in SavingArchives : ParseStart(a)) /\ NameIdle /\ StripIdle /\ SenderIdle /\ SearchIdle /\ LaterIdle

InitSender ==
    /\ \E in \in SenderInputs :
           /\ email = MessageOf(in[1], in[2], in[3])
           /\ senderShape = [direct |-> in[1], headers |-> in[2], body |-> in[3]]
    /\ sender = NoSender
    /\ now = 0 /\ ParseIdle /\ NameIdle /\ StripIdle /\ SearchIdle /\ LaterIdle

InitName ==
    /\ now \in 0..MaxTick
    /\ attInput \in [longFilename : UntrustedNames, filename : {<<>>}, fault : {"none"}]
    /\ attIndex \in {0, 7}
    /\ storedRef = NoRef
    /\ ParseIdle /\ StripIdle /\ SenderIdle /\ SearchIdle /\ LaterIdle

InitStrip ==
    /\ bodyShape \in BodyShapes
    /\ bodyText = ShapeText(bodyShape)
    /\ stripped = Pending
    /\ now = 0 /\ ParseIdle /\ NameIdle /\ SenderIdle /\ SearchIdle /\ LaterIdle

\* parsePSTFile(filePath) on every archive
Next ==
    \/ OpenPST
    \/ GetSubFolders
    \/ ProcessSubFolder
    \/ GetNextChild
    \/ ParseEntry
    \/ Return
Spec == Init /\ [][Next]_vars

\* parsePSTFile(filePath, opts) with attachments saved
SpecAtt == InitAtt /\ [][Next]_vars

\* the naming of one stored attachment
NextName == NameAttachment
SpecName == InitName /\ [][NextName]_vars

\* stripInjectedHeaderBlock and extractBody on one text
NextStrip == StripBody
SpecStrip == InitStrip /\ [][NextStrip]_vars

\* extractSender on one message
NextSender == ResolveSender
SpecSender == InitSender /\ [][NextSender]_vars

InitSearch == now = 0 /\ ParseIdle /\ NameIdle /\ StripIdle /\ SenderIdle /\ SearchIdle /\ LaterIdle
NextSearch == InsertEmail \/ AddEmailAttachments \/ SearchEmails
SpecSearch == InitSearch /\ [][NextSearch]_vars

\* the same store searched by the searchEmails whose LIKE pattern is the whole query
NextPhrase == InsertEmail \/ AddEmailAttachments \/ SearchEmailsByPhrase
SpecPhrase == InitSearch /\ [][NextPhrase]_vars

\* the chunk store and one searchRagChunks call
NextRag == SaveRagChunks \/ SearchRagChunks
SpecRag == InitRag /\ [][NextRag]_vars

\* chunkString on one text
NextChunk == ChunkText
SpecChunk == InitChunk /\ [][NextChunk]_vars

\* classifyEmail and extractEventsFromEmail on one reply of the service
NextLlm == ClassifyEmailCall \/ ClassifyEmailWithDefaultsCall \/ ExtractEventsCall
SpecLlm == InitLlm /\ [][NextLlm]_vars

\* POST /api/import with the background pass
NextRimp == RagImport \/ EnrichRagEmail \/ RagBackgroundEnd
SpecRimp == InitRimp /\ [][NextRimp]_vars

\* POST /api/import with the enrichment loop before the answer
NextImp == ImportFiles \/ EnrichEmail \/ ImportRespond
SpecImp == InitImp /\ [][NextImp]_vars

\* the same under the scheduling of the handler: every await in it is answered (by a
\* value or by a rejection), so a pass that can be taken is taken, and so is the answer
SpecImpFair == InitImp /\ [][NextImp]_vars /\ WF_vars(EnrichEmail) /\ WF_vars(ImportRespond)

\* one call of insertEmailsAndGetIds, in any of its three forms
NextIns == InsertEmailsStatement \/ InsertEmailsInTransaction \/ InsertEmailsOneByOne
SpecIns == InitIns /\ [][NextIns]_vars

\* chunkString iteration by iteration; the loop is synchronous code, so an iteration
\* that can be taken is taken
NextLoop == ChunkReturn \/ ChunkIterate
SpecLoop == InitLoop /\ [][NextLoop]_vars /\ WF_vars(NextLoop)

\* normalizeBody on one text, then on its result
NextNorm == NormalizeOnce \/ NormalizeAgain
SpecNorm == InitNorm /\ [][NextNorm]_vars

\* decodeText on one text
NextDec == DecodeOne
SpecDec == InitDec /\ [][NextDec]_vars

\* extractBody on one message
NextBody == ExtractMessageBody
SpecBody == InitBody /\ [][NextBody]_vars

\* POST /api/import on archives with attachments
NextAimp == ParseUpload \/ StoreAttachments
SpecAimp == InitAimp /\ [][NextAimp]_vars

\* concurrent setAppSetting calls on one key
NextSet == GetAppSetting \/ UpdateAppSetting \/ InsertAppSetting
SpecSet == InitSet /\ [][NextSet]_vars

\* the requests that write the classification and the processed flag, in any order
NextProc ==
    \/ ImportAndEnrich \/ ImportAndEnrichChecked \/ ClassifyOne \/ ClassifyAll
    \/ ProcessUnprocessed \/ UpdateEmail
SpecProc == InitProc /\ [][NextProc]_vars

-----------------------------------------------------------------------------
(* Claims *)

\* ---- parsePSTFile

\* the positions in emails of the messages made from entry e
MessagesOf(e) == {i \in 1..Len(emails) : emails[i].body = EntryBody(e[1], e[2])}
\* entry e was read and nothing threw while it was parsed
Clean(e) ==
    /\ visit[e].status = "processed"
    /\ visit[e].parse = "ok"
    /\ visit[e].dir # "maildir"
\* reading entry e threw, or parsing it did
Failed(e) ==
    \/ visit[e].status = "unreadable"
    \/ visit[e].status = "processed" /\ ~Clean(e)
CountErrors(kinds) == Cardinality({k \in 1..Len(errors) : errors[k].kind \in kinds})

\* C1 as stated (refuted): when parsePSTFile has returned from an archive it could
\* open, every entry that did not itself fail was visited and has its message in the
\* output, whatever else failed.
C1_Original ==
    pc = "done" => \A e \in DOMAIN visit : Failed(e) \/ MessagesOf(e) # {}

\* C2: every entry that parsed has exactly one message in emails, labelled with the
\* display name of its folder (no label when the name is empty); every entry whose
\* reading or parsing failed has no message, and the error list has an entry for it.
C2_OneMessagePerParsedEntry ==
    /\ \A e \in DOMAIN visit :
          /\ Clean(e) =>
                /\ Cardinality(MessagesOf(e)) = 1
                /\ \A i \in MessagesOf(e) :
                       emails[i].label = IF DisplayName(archive, e[1]) = <<>> THEN Undefined
                                         ELSE DisplayName(archive, e[1])
          /\ ~Clean(e) => MessagesOf(e) = {}
          /\ visit[e].status = "unreadable" =>
                \E k \in 1..Len(errors) :
                    errors[k] = [kind |-> "folder", name |-> DisplayName(archive, e[1])]
    /\ Len(emails) = Cardinality({e \in DOMAIN visit : Clean(e)})
    /\ CountErrors({"email"}) =
           Cardinality({e \in DOMAIN visit : visit[e].status = "processed" /\ ~Clean(e)})
    /\ CountErrors({"folder"}) >= Cardinality({e \in DOMAIN visit : visit[e].status = "unreadable"})

\* the parse is over, and an entry of a named folder parsed while another threw and
\* a third could not be read
C2_Witness ==
    /\ pc = "done"
    /\ \E e \in DOMAIN visit : Clean(e) /\ e[1] > 1
    /\ \E e \in DOMAIN visit : visit[e].status = "processed" /\ visit[e].parse = "throws"
    /\ \E e \in DOMAIN visit : visit[e].status = "unreadable"

\* C3: when the archive cannot be opened, parsePSTFile returns no message, exactly
\* one error, the open failure, and a totalCount of 0.
C3_OpenFailureIsEmpty ==
    pc = "aborted" =>
        /\ result.emails = <<>>
        /\ result.errors = <<[kind |-> "open"]>>
        /\ result.totalCount = 0
        /\ result.errorCount = 1

\* parsePSTFile has returned from an archive with entries that could not be opened
C3_Witness ==
    /\ pc = "aborted"
    /\ DOMAIN visit # {}
    /\ result.errorCount = 1

\* ---- extractAttachments

\* the index an attachment reference was stored under: the first field of storedName
IndexOfRef(ref) ==
    CHOOSE i \in 0..MaxAttachments : SubSeq(ref.storedName, 1, 3) = PadStart0(NumStr(i), 3)

\* C4: for a message whose own parsing does not fail, every attachment without a
\* content stream or whose extraction throws has an error recorded for its index and
\* is absent from the attachments of the message; all the others are there, in
\* order; and the message is in the output.
C4_FailedAttachmentSkipped ==
    \A e \in DOMAIN visit :
        (Clean(e) /\ visit[e].dir = "none") =>
            /\ Cardinality(MessagesOf(e)) = 1
            /\ \A m \in MessagesOf(e) :
                   LET atts == emails[m].attachments
                       faults == visit[e].faults
                   IN  /\ \A i \in 1..Len(faults) :
                              faults[i] = "none" <=>
                                  \E j \in 1..Len(atts) : IndexOfRef(atts[j]) = i - 1
                       /\ \A j \in 1..Len(atts), k \in 1..Len(atts) :
                              j < k => IndexOfRef(atts[j]) < IndexOfRef(atts[k])
                       /\ \A i \in 1..Len(faults) :
                              faults[i] # "none" =>
                                  \E k \in 1..Len(errors) :
                                      /\ errors[k].kind \in {"attachment", "nostream"}
                                      /\ errors[k].emailKey = visit[e].emailKey
                                      /\ errors[k].index = i - 1

\* the parse is over, and of the attachments of one recorded message one had no
\* content stream and a later one was stored
C4_Witness ==
    /\ pc = "done"
    /\ \E e \in DOMAIN visit :
          /\ Clean(e) /\ visit[e].dir = "none"
          /\ \E i \in 1..Len(visit[e].faults), j \in 1..Len(visit[e].faults) :
                 i < j /\ visit[e].faults[i] = "nostream" /\ visit[e].faults[j] = "none"
          /\ \E m \in MessagesOf(e) : Len(emails[m].attachments) >= 1

BadNameChars == {"/", "\\", ":", "?"}
\* the length of `${index}-${Date.now()}-`
StoredPrefixLen == Len(StoredName(attIndex, now, <<>>))

\* C5 (as stated): the stored name of every untrusted attachment name has no path
\* separator, no ':' and no '?', and is at most 180 characters long
C5_Original ==
    storedRef.kind = "saved" =>
        /\ \A i \in 1..Len(storedRef.ref.storedName) :
               storedRef.ref.storedName[i] \notin BadNameChars
        /\ Len(storedRef.ref.storedName) <= MaxBasename

\* C5 (amended): the stored name of every untrusted attachment name has no path
\* separator, no ':' and no '?'; the sanitized name inside it is at most 180
\* characters long, the stored name at most 180 plus its index-timestamp prefix
C5_StoredNameSafe ==
    storedRef.kind = "saved" =>
        /\ \A i \in 1..Len(storedRef.ref.storedName) :
               storedRef.ref.storedName[i] \notin BadNameChars
        /\ Len(storedRef.ref.storedName) <= MaxBasename + StoredPrefixLen
        /\ Len(SafeBasename(DecodeText(attInput.longFilename))) <= MaxBasename
        /\ storedRef.ref.storedName =
               StoredName(attIndex, now, From(storedRef.ref.storedName, StoredPrefixLen + 1))

\* a name with a separator, a ':' and more than 180 characters was stored
C5_Witness ==
    /\ storedRef.kind = "saved"
    /\ Len(attInput.longFilename) > MaxBasename
    /\ \E i \in 1..Len(attInput.longFilename) : attInput.longFilename[i] = "/"
    /\ \E i \in 1..Len(attInput.longFilename) : attInput.longFilename[i] = ":"

\* the body of a shape as one text, and the header-key lines that open the text
BodyOf(shape) == Join(shape.body, <<"\n">>)
BodyLeadHeaders(shape) ==
    IF \A i \in 1..Len(shape.body) : IsHeaderLine(Trim(shape.body[i])) THEN Len(shape.body)
    ELSE (CHOOSE i \in 1..Len(shape.body) :
              /\ ~IsHeaderLine(Trim(shape.body[i]))
              /\ \A j \in 1..(i - 1) : IsHeaderLine(Trim(shape.body[j]))) - 1
LeadingHeaders(shape) ==
    IF shape.blank THEN shape.headers ELSE shape.headers + BodyLeadHeaders(shape)

C7_Original ==
    (stripped.done /\ LeadingHeaders(bodyShape) < HeaderThreshold) =>
        stripped.strip = bodyText

\* C7 (amended): fewer than three header-key lines at the start: no line is removed;
\* the result is the input with "\r\n" read as "\n" and its outer white space trimmed
C7_BelowThresholdKept ==
    (stripped.done /\ LeadingHeaders(bodyShape) < HeaderThreshold) =>
        stripped.strip = Trim(Join(ShapeLines(bodyShape), <<"\n">>))

\* two header-key lines after a blank line, then prose: both lines are still there
C7_Witness ==
    /\ stripped.done
    /\ bodyShape.headers = 2 /\ bodyShape.lead = 1 /\ ~bodyShape.blank
    /\ LeadingHeaders(bodyShape) = 2
    /\ MatchAt(stripped.strip, HeaderLineOf(bodyShape.first, 1), 1)

\* C8 as stated (refuted): for every body in which From: is followed on the same line
\* by a next-field keyword (To:, Cc:, Bcc:, Reply Required:, Date:), the sender taken
\* from the body is the text between From: and that keyword, trimmed.
C8_Original ==
    (sender.done /\ senderShape.body.from /\ senderShape.body.next \in KeywordNexts)
        => sender.fromBody = SenderPool[senderShape.body.name]

\* the strategies of extractSender in their order, each with its trimmed result
SenderStrategies(e) ==
    [i \in 1..6 |-> Trim(DecodeText(DirectFields(e)[i]))]
    \o [j \in 1..5 |-> FromLine(HeaderCandidates(e)[j])]
    \o <<ExtractSenderFromInjectedBodyBlock(BodyForParse(e)),
         ExtractSenderFromInjectedBodyBlock(HtmlForParse(e))>>

\* C9 as stated (refuted): extractSender returns the trimmed value of the first
\* strategy or field, in the fixed order, that is not empty after trimming, and the
\* empty string only when all of them are empty after trimming.
C9_Original ==
    sender.done => sender.value = FirstTruthy(SenderStrategies(email))

\* ---- C10

\* the positions of text where token stands, letters compared without case
Occurrences(text, token) ==
    {i \in 1..(Len(text) - Len(token) + 1) :
        \A k \in 1..Len(token) : ToLowerChar(text[i + k - 1]) = ToLowerChar(token[k])}

\* the occurrence count: the most occurrences that can be picked without two sharing a
\* character
OccurrenceCount(text, token) ==
    LET picks == {P \in SUBSET Occurrences(text, token) :
                     \A i \in P : \A j \in P : i < j => j - i >= Len(token)}
    IN  CHOOSE n \in 0..Len(text) :
            /\ \E P \in picks : Cardinality(P) = n
            /\ \A P \in picks : Cardinality(P) <= n

\* the query tokens: the maximal runs of characters that are not white space
QueryTokens(query) ==
    {r \in (1..Len(query)) \X (1..Len(query)) :
        /\ r[1] <= r[2]
        /\ \A k \in r[1]..r[2] : ~IsSpace(query[k])
        /\ (r[1] = 1 \/ IsSpace(query[r[1] - 1]))
        /\ (r[2] = Len(query) \/ IsSpace(query[r[2] + 1]))}

FrequencySum(text, query) ==
    LET toks == QueryTokens(query)
        RECURSIVE Sum(_)
        Sum(R) == IF R = {} THEN 0
                  ELSE LET r == CHOOSE x \in R : TRUE
                       IN  OccurrenceCount(text, SubSeq(query, r[1], r[2])) + Sum(R \ {r})
    IN  Sum(toks)

\* the scoring text of the row a hit was made from
ScoringTextOf(hit) ==
    LET rows == SelectRows(dbEmails, dbAttachments, LikeTokens(Tokenize(search.query)))
    IN  TextToScore(rows[CHOOSE i \in 1..Len(rows) : NumStr(rows[i].id) = hit.mailId])

\* C10: the hits of searchEmails stand in order of non-increasing score, and the score
\* of each hit is the sum, over the tokens of the query, of the number of times the
\* token occurs in the scoring text of the hit, letters compared without case; a hit
\* with a strictly greater sum stands before a hit with a smaller one
C10_RankedByFrequencySum ==
    search.done =>
        /\ \A i \in 1..Len(search.hits) :
               search.hits[i].score = FrequencySum(ScoringTextOf(search.hits[i]), search.query)
        /\ \A i \in 1..Len(search.hits) : \A j \in 1..Len(search.hits) :
               /\ (i < j => search.hits[i].score >= search.hits[j].score)
               /\ (FrequencySum(ScoringTextOf(search.hits[i]), search.query)
                       > FrequencySum(ScoringTextOf(search.hits[j]), search.query) => i < j)

\* a search with two tokens whose two hits come back in the reverse of their row order,
\* the later row holding the tokens more often
C10_Witness ==
    /\ search.done
    /\ Cardinality(QueryTokens(search.query)) = 2
    /\ Len(search.hits) = 2
    /\ search.hits[1].mailId = <<"2">> /\ search.hits[2].mailId = <<"1">>
    /\ search.hits[1].score = 4 /\ search.hits[2].score = 1

\* ---- C11

\* the rows of the store that score above zero for the query of the search
ScoringRows ==
    {id \in 1..Len(dbEmails) :
        \E i \in 1..Len(SelectRows(dbEmails, dbAttachments, LikeTokens(Tokenize(search.query)))) :
            LET row == SelectRows(dbEmails, dbAttachments, LikeTokens(Tokenize(search.query)))[i]
            IN  row.id = id /\ FrequencySum(TextToScore(row), search.query) > 0}

\* C11: searchEmails returns at most max(1, topK) hits, every hit has a score above
\* zero, and a query without tokens (empty or white space only) returns no hit
C11_BoundedPositiveHits ==
    search.done =>
        /\ Len(search.hits) <= (IF search.topK > 1 THEN search.topK ELSE 1)
        /\ \A i \in 1..Len(search.hits) : search.hits[i].score > 0
        /\ (QueryTokens(search.query) = {} => search.hits = <<>>)

\* a search with topK = 0 over a store with two rows that score: one hit comes back
C11_Witness ==
    /\ search.done /\ search.topK = 0
    /\ Cardinality(ScoringRows) = 2
    /\ Len(search.hits) = 1 /\ search.hits[1].score > 0

\* ---- C12

Rejoin(chunks, overlap) ==
    Flatten([k \in 1..Len(chunks) |->
        IF k = 1 THEN chunks[k] ELSE SubSeq(chunks[k], overlap + 1, Len(chunks[k]))])

\* C13: every chunk of chunkString(text, size, overlap) has at most size characters,
\* and the first chunk followed by each later chunk less its first overlap characters
\* is the text again
C13_ChunksRejoin ==
    chunked.done =>
        /\ \A k \in 1..Len(chunked.chunks) : Len(chunked.chunks[k]) <= chunkInput.size
        /\ Rejoin(chunked.chunks, chunkInput.overlap) = chunkInput.text

\* the 1200 characters of the example cut with 500/100 into chunks of 500, 500 and 400
C13_Witness ==
    /\ chunked.done /\ Len(chunkInput.text) = 1200
    /\ chunkInput.size = 500 /\ chunkInput.overlap = 100
    /\ Len(chunked.chunks) = 3
    /\ Len(chunked.chunks[1]) = 500 /\ Len(chunked.chunks[2]) = 500
    /\ Len(chunked.chunks[3]) = 400

\* ---- C20

\* the reply gives no JSON to use: the service failed, the text holds no JSON, or the
\* JSON in it does not parse
NoUsableJson(reply, open, close) ==
    \/ reply.kind # "content"
    \/ MatchBetween(reply.content, open, close) = <<>>
    \/ JsonParse(MatchBetween(reply.content, open, close)) = JSyntaxError

\* C20 as stated (refuted): for every outcome of the service classifyEmail returns a
\* result whose classification and confidence are both non-empty, the default
\* "reference" / "low" when the reply gives no JSON to use, and extractEventsFromEmail
\* returns the empty list when the reply gives no JSON to use.
C20_Original ==
    /\ llmResult.classified =>
           /\ Truthy(llmResult.classification.classification)
           /\ Truthy(llmResult.classification.confidence)
           /\ (NoUsableJson(llmReply, "{", "}")
                   => llmResult.classification = DefaultClassification)
    /\ (llmResult.extracted /\ NoUsableJson(llmReply, "[", "]")) => llmResult.events = <<>>

\* ---- C14

\* the requests made to the embedding service for the email with this id
MailRequests(id) == SelectSeq(rimpTrace, LAMBDA ev : ev.op = "embed" /\ ev.mail = id)

\* the contents of the chunks stored for the email with this id
StoredFor(id) ==
    LET rows == SelectSeq(rimpDb.chunks, LAMBDA c : c.mailId = id)
    IN  [i \in 1..Len(rows) |-> rows[i].content]

\* the chunks of an email whose embedding request was answered with a vector
Embedded(e) ==
    LET asked == MailRequests(e.id)
    IN  Flatten([i \in 1..Len(asked) |->
            IF asked[i].reply = "vector" THEN <<TextChunks(e)[i]>> ELSE <<>>])

\* C14: for every email the background pass has gone through, whatever the embedding
\* service answered (no success status, no connection, a payload that is not the
\* expected one), every chunk of the email was sent to the service, and the chunks
\* stored are exactly those whose request was answered with a vector
C14_Original ==
    \A k \in 1..rimpNext :
        /\ Len(MailRequests(rimpInserted[k].id)) = Len(TextChunks(rimpInserted[k]))
        /\ StoredFor(rimpInserted[k].id) = Embedded(rimpInserted[k])

\* ---- C15

\* the calls that enrich an email
EnrichmentOps == {"classify", "extract", "local", "embed"}

\* the positions in a trace of the calls with this op
Positions(trace, ops) == {i \in 1..Len(trace) : trace[i].op \in ops}

\* C15: in every execution of the import handler the records are persisted before the
\* response is sent, the response is sent before the first call that enriches an
\* email, and the emails are enriched one at a time in the order they were inserted
C15_Original ==
    /\ \A i \in Positions(impTrace, EnrichmentOps) :
           \E r \in Positions(impTrace, {"respond"}) :
               /\ r < i
               /\ \E p \in Positions(impTrace, {"persist"}) : p < r
    /\ \A i, j \in Positions(impTrace, EnrichmentOps) :
           i < j => impTrace[i].mail <= impTrace[j].mail

\* ---- C16

\* the rows of the other emails, and the events of the other emails, before and after
\* a pass of the loop
OtherRows(store, id) == [k \in 1..Len(store.emails) |-> IF k = id THEN JNull ELSE store.emails[k]]
OtherEvents(store, id) == SelectSeq(store.calendar, LAMBDA ev : ev.emailId # id)

\* a pass of the loop changes nothing but what belongs to its email, and goes on to
\* the next email
PassStaysLocal ==
    (impPc = "enrich" /\ impTrace' # impTrace /\ impPc' = "enrich") =>
        /\ impNext' = impNext + 1
        /\ OtherRows(impStore', impInserted[impNext + 1].id)
               = OtherRows(impStore, impInserted[impNext + 1].id)
        /\ OtherEvents(impStore', impInserted[impNext + 1].id)
               = OtherEvents(impStore, impInserted[impNext + 1].id)
        /\ impStore'.logs = impStore.logs

\* every email the loop has gone through was attempted once and no call was made twice;
\* no other email has been attempted
AttemptedOnce ==
    \A k \in 1..Len(impInserted) :
        /\ Cardinality({i \in Positions(impTrace, {"classify", "local"}) :
                            impTrace[i].mail = impInserted[k].id})
               = IF k <= impNext THEN 1 ELSE 0
        /\ Cardinality({i \in Positions(impTrace, {"extract"}) :
                            impTrace[i].mail = impInserted[k].id}) <= 1

\* C16: in the enrichment loop a failure while enriching one email (the service not
\* answering, an answer that is no JSON, a failing write) touches only that email; no
\* call is repeated, every later email is still attempted, and the loop always gets
\* to the end of the inserted emails
C16_FailureStaysLocal ==
    /\ [][PassStaysLocal]_vars
    /\ []AttemptedOnce
    /\ (impPc = "enrich" ~> (impNext = Len(impInserted) /\ impPc = "done"))

\* the first email's pass ended in the catch; the second email was still attempted, its
\* extraction call found no service, and it is marked processed; the handler is done
C16_Witness ==
    /\ impPc = "done" /\ Len(impInserted) = 2 /\ impNext = 2
    /\ \E i \in Positions(impTrace, {"catch"}) : impTrace[i].mail = 1
    /\ \E i \in Positions(impTrace, {"extract"}) :
           impTrace[i].mail = 2 /\ impTrace[i].reply = "unreachable"
    /\ impStore.emails[2].isProcessed /\ ~impStore.emails[1].isProcessed

\* ---- C17

\* the calendar events of the email with this id
EventsOfMail(store, id) == SelectSeq(store.calendar, LAMBDA ev : ev.emailId = id)

\* the passes of the loop that ended in the catch
Caught == {impTrace[i].mail : i \in Positions(impTrace, {"catch"})}

\* C17: when the connection check of an import finds no language-model service, every
\* parsed email is inserted, no classification call and no extraction call is made to
\* the service, every email whose pass the database did not fail has exactly the
\* events extractEventsLocally finds in it, and the handler answers with success
C17_LocalFallback ==
    (impPc \in {"enrich", "done"} /\ impInserted # <<>> /\ ~impConnected) =>
        /\ Len(impInserted) = Len(EmailsToImport(impFiles))
        /\ \A k \in 1..Len(impInserted) :
               /\ impStore.emails[impInserted[k].id].subject = EmailsToImport(impFiles)[k].subject
               /\ impStore.emails[impInserted[k].id].body = EmailsToImport(impFiles)[k].body
               /\ impStore.emails[impInserted[k].id].classification = JNull
        /\ Positions(impTrace, {"classify", "extract"}) = {}
        /\ \A k \in 1..impNext :
               impInserted[k].id \notin Caught =>
                   /\ EventsOfMail(impStore, impInserted[k].id)
                          = WithEvents(<<>>, impInserted[k].id,
                                ExtractEventsLocally(impInserted[k].subject,
                                    impInserted[k].body, impInserted[k].date))
                   /\ impStore.emails[impInserted[k].id].isProcessed
        /\ impPc = "done" => impResponse = Responded(200, TRUE, Len(impInserted))

\* an import without the service is answered with success, and the email whose body
\* names 2025-1-7 14:00 has the event of that date
C17_Witness ==
    /\ impPc = "done" /\ ~impConnected /\ impResponse.ok /\ impResponse.inserted = 2
    /\ \E i \in 1..Len(impStore.calendar) :
           /\ impStore.calendar[i].emailId = 1
           /\ impStore.calendar[i].startDate = <<"2","0","2","5","-","0","1","-","0","7"," ","1","4",":","0","0">>
           /\ impStore.calendar[i].title = <<"H","i">>
    /\ \E i \in 1..Len(impStore.calendar) :
           /\ impStore.calendar[i].emailId = 2
           /\ impStore.calendar[i].title = NoSubject

\* ---- C18

\* C18: when a call of insertEmailsAndGetIds throws because the insert of one of its
\* records fails, the table holds what it held before the call: no record of the
\* call is persisted
C18_Original == insCall.threw => insRows = insBefore

\* ---- C19

\* the extensions the handler has a parser for
Supported(file) == Ext(file.original) \in {<<"j","s","o","n">>, <<"p","s","t">>}

\* the upload yields no email: every file is of an unsupported extension, or is no
\* JSON, or is an archive without emails
YieldsNothing(uploaded) ==
    /\ uploaded # <<>>
    /\ \A k \in 1..Len(uploaded) :
           \/ ~Supported(uploaded[k])
           \/ uploaded[k].content.shape = "text"
           \/ uploaded[k].content.mails = <<>>

WindowAdvances == (loopPc = "run" /\ loopPc' = "run") => loopStart' > loopStart

\* at the end the last window reaches the end of the text, every chunk before the last
\* has size characters, the last has at most size, and the chunks are those of
\* chunkString
EndsAtTextEnd ==
    loopPc = "done" =>
        /\ loopChunks = ChunkString(loopInput.text, loopInput.size, loopInput.overlap)
        /\ loopInput.text # <<>> =>
               /\ loopChunks # <<>>
               /\ Min(loopStart + loopInput.size, Len(loopInput.text)) = Len(loopInput.text)
               /\ \A k \in 1..(Len(loopChunks) - 1) : Len(loopChunks[k]) = loopInput.size
               /\ Len(loopChunks[Len(loopChunks)]) \in 1..loopInput.size

\* C26: for every text and every size and overlap with 0 <= overlap < size (the call of
\* the import passes 500 and 100), the window start strictly advances from one
\* iteration to the next, the loop ends, and it ends at the iteration whose window
\* reaches the end of the text, whose chunk may be shorter than size
C26_LoopTerminates ==
    /\ [][WindowAdvances]_vars
    /\ []EndsAtTextEnd
    /\ <>(loopPc = "done")

\* the call of the import on 1200 characters has ended after three iterations, the
\* last chunk shorter than 500
C26_Witness ==
    /\ loopPc = "done" /\ loopInput = LongInput
    /\ Len(loopChunks) = 3 /\ loopStart = 800
    /\ Len(loopChunks[3]) = 400

\* ---- C30

\* some line of t ends in a space or a tab
LineEndsBlank(t) ==
    \E i \in 1..Len(SplitLines(t)) :
        /\ SplitLines(t)[i] # <<>>
        /\ SplitLines(t)[i][Len(SplitLines(t)[i])] \in {" ", "\t"}

HasNewlineRun(t) == Includes(t, <<"\n", "\n", "\n">>)

\* t begins with the header-key lines stripInjectedHeaderBlock would remove
BeginsWithHeaderBlock(t) ==
    HeaderRun(SplitLines(t), LeadBlank(SplitLines(t)), ScanLimit) >= HeaderThreshold

\* C30 (as stated): normalizeBody(normalizeBody(t)) = normalizeBody(t), and the result
\* begins with no block of three or more header-key lines, has no line with a space
\* or a tab at its end and no run of three or more newlines
C30_Original ==
    /\ normPc = "twice" => normTwice = normOnce
    /\ normPc \in {"once", "twice"} =>
           /\ ~BeginsWithHeaderBlock(normOnce)
           /\ ~LineEndsBlank(normOnce)
           /\ ~HasNewlineRun(normOnce)

\* C30 (amended): the result of normalizeBody has no line that ends in a space or a
\* tab, no run of three or more newlines and no white space around it; and whenever
\* the result holds no "\r\n" and begins with no block of three or more header-key
\* lines, normalizeBody returns it unchanged
C30_IdempotentOnceClean ==
    /\ normPc \in {"once", "twice"} =>
           /\ ~LineEndsBlank(normOnce)
           /\ ~HasNewlineRun(normOnce)
           /\ Trim(normOnce) = normOnce
    /\ (/\ normPc = "twice"
        /\ ~Includes(normOnce, <<"\r", "\n">>)
        /\ ~BeginsWithHeaderBlock(normOnce)) => normTwice = normOnce

\* a header block was stripped, white space after a line and a run of blank lines were
\* removed, and the second call returned the same text
C30_Witness ==
    /\ normPc = "twice"
    /\ BeginsWithHeaderBlock(normText)
    /\ LineEndsBlank(normText) /\ HasNewlineRun(normText)
    /\ normOnce # <<>> /\ normOnce # Trim(ReplaceCRLF(normText))
    /\ ~BeginsWithHeaderBlock(normOnce)
    /\ normTwice = normOnce

\* ---- C23

\* the bytes decodeText reinterprets (lines 244-248)
BufferOf(text) ==
    IF HasBlankLiteral(text) \/ HasHighLatin1(text) THEN FromLatin1(text) ELSE FromUtf8(text)

\* a candidate that holds no replacement character and no stray control byte
Acceptable(candidate) == ~HasReplacement(candidate) /\ ~HasStrayControl(candidate)

\* the candidates in their order: the bytes as UTF-8, as CP949, as EUC-KR
Candidates(text) ==
    <<Utf8Decode(BufferOf(text)), Cp949Decode(BufferOf(text)), Cp949Decode(BufferOf(text))>>

\* C23 (as stated): a text that does not look clean is decoded to the first of the
\* candidates UTF-8, CP949, EUC-KR that holds no replacement character and no stray
\* control byte, and to itself when no candidate does
C23_Original ==
    (decoded.done /\ decText # <<>> /\ ~Acceptable(decText)) =>
        IF \E k \in 1..3 : Acceptable(Candidates(decText)[k])
        THEN \E k \in 1..3 :
                 /\ Acceptable(Candidates(decText)[k])
                 /\ \A j \in 1..(k - 1) : ~Acceptable(Candidates(decText)[j])
                 /\ decoded.value = Candidates(decText)[k]
        ELSE decoded.value = decText

\* ---- C24

PlainField == DecodeText(bodyMsg.body)
HtmlField  == DecodeText(bodyMsg.bodyHTML)
IsBlank(text) == Trim(text) = <<>>

\* C24 (as stated): the plain-text field when it is not blank and not HTML-shaped;
\* else the plain-text field converted from HTML when it is HTML-shaped; else the
\* HTML field converted to plain text; the result is normalizeBody of the chosen text
C24_Original ==
    extracted.done =>
        extracted.value =
            NormalizeBody(IF ~IsBlank(PlainField) /\ ~LooksLikeHtml(PlainField)
                          THEN Trim(PlainField)
                          ELSE IF LooksLikeHtml(PlainField) THEN HtmlToPlainText(PlainField)
                          ELSE HtmlToPlainText(HtmlField))

\* C24 (amended): each source is taken only when no source before it applies: the
\* plain-text field, not blank and not HTML-shaped; its conversion from HTML, when it
\* is HTML-shaped and the conversion is not empty; the conversion of the HTML field,
\* when that field is not blank and its conversion is not empty; and otherwise the
\* plain-text field as it is, or the HTML field as it is when the plain-text field is
\* empty.  The result is normalizeBody of the text taken
C24_SourceByPriority ==
    extracted.done =>
        LET plain     == ~IsBlank(PlainField) /\ ~LooksLikeHtml(PlainField)
            converted == /\ ~IsBlank(PlainField) /\ LooksLikeHtml(PlainField)
                         /\ HtmlToPlainText(PlainField) # <<>>
            fromHtml  == ~IsBlank(HtmlField) /\ HtmlToPlainText(HtmlField) # <<>>
        IN  /\ plain => extracted.value = NormalizeBody(Trim(PlainField))
            /\ converted => extracted.value = NormalizeBody(HtmlToPlainText(PlainField))
            /\ (~plain /\ ~converted /\ fromHtml) =>
                   extracted.value = NormalizeBody(HtmlToPlainText(HtmlField))
            /\ (~plain /\ ~converted /\ ~fromHtml) =>
                   extracted.value = NormalizeBody(Trim(IF PlainField # <<>> THEN PlainField
                                                        ELSE HtmlField))

\* a plain-text field that is markup was converted although the HTML field holds a
\* text of its own
C24_Witness ==
    /\ extracted.done
    /\ bodyMsg.body = <<"<","p",">","h","i","<","/","p",">">>
    /\ bodyMsg.bodyHTML = <<"<","p",">","y","o","<","/","p",">">>
    /\ extracted.value = <<"h", "i">>

\* ---- C22

\* the attachments saved during the parse: entry e saved its k-th file
SavedFiles ==
    {s \in (DOMAIN visit) \X (1..MaxAttachments) :
        visit[s[1]].status = "processed" /\ s[2] <= Len(visit[s[1]].saved)}

SavedPath(s) == visit[s[1]].saved[s[2]]

\* C22 (as stated): whatever entries fail and whatever the clock reads, no two
\* attachments saved during one parse are written to the same relative path: the keys
\* of two entries that saved attachments differ, and the stored names of one entry
\* differ
C22_Original ==
    /\ \A s \in SavedFiles, t \in SavedFiles : s # t => SavedPath(s) # SavedPath(t)
    /\ \A d \in DOMAIN visit, e \in DOMAIN visit :
           (/\ d # e
            /\ visit[d].status = "processed" /\ visit[d].saved # <<>>
            /\ visit[e].status = "processed" /\ visit[e].saved # <<>>) =>
               visit[d].emailKey # visit[e].emailKey

\* ---- C21

\* the messages whose record has the identifier id
RecordsOf(id) == {i \in 1..Len(aimpEmails) : aimpEmails[i].id = id}

\* C21 (as stated): after the import every attachment row of the record E has its path
\* inside email_E, belongs to exactly one record, and the file it names was extracted
\* from the message that record was created from
C21_Original ==
    aimpPc = "done" =>
        \A n \in 1..Len(aimpRows) :
            /\ Len(aimpRows[n].relPath) = 2
            /\ aimpRows[n].relPath[1] = EmailFolder(aimpRows[n].emailId)
            /\ Cardinality(RecordsOf(aimpRows[n].emailId)) = 1
            /\ OnDisk(aimpDisk, aimpRows[n].relPath)
            /\ \A i \in RecordsOf(aimpRows[n].emailId) :
                   /\ aimpEmails[i].source[1] = ContentAt(aimpDisk, aimpRows[n].relPath).file
                   /\ aimpEmails[i].source[2] = ContentAt(aimpDisk, aimpRows[n].relPath).msg

\* ---- C29

\* C29 (as stated): however two or more setAppSetting calls on one key interleave, no
\* call fails, and once all have ended the table holds exactly one row for the key,
\* with the value one of the calls wrote
C29_Original ==
    /\ \A c \in 1..Len(setCalls) : setCalls[c].pc # "failed"
    /\ (\A c \in 1..Len(setCalls) : setCalls[c].pc \in {"done", "failed"}) =>
           /\ Cardinality(RowsOfKey(settings, SettingKey)) = 1
           /\ \A r \in RowsOfKey(settings, SettingKey) :
                  \E c \in 1..Len(setCalls) : r.value = ValueOf(c)

\* ---- C25

\* token stands in text as a substring, character for character
SubstringOf(token, text) ==
    text # Null /\ \E i \in 1..(Len(text) - Len(token) + 1) : SubSeq(text, i, i + Len(token) - 1) = token

\* the texts of the stored record id: its subject, body, sender and date and the
\* file names and the extracted text of its attachments
TextsOfRecord(id) ==
    {dbEmails[id].subject, dbEmails[id].body, dbEmails[id].sender, dbEmails[id].date}
        \cup UNION {{dbAttachments[j].filename, dbAttachments[j].original_name,
                     dbAttachments[j].extracted_text} :
                        j \in {k \in 1..Len(dbAttachments) : dbAttachments[k].email_id = id}}

\* the stored records in which a token of the query of the search occurs
RecordsWithToken ==
    {id \in 1..Len(dbEmails) :
        \E r \in QueryTokens(search.query) : \E text \in TextsOfRecord(id) :
            SubstringOf(SubSeq(search.query, r[1], r[2]), text)}

\* the candidate set of the search: the records of the rows that are scored
PhraseCandidates ==
    {PhraseRows(dbEmails, search.query)[i].id : i \in 1..Len(PhraseRows(dbEmails, search.query))}

\* C25: for a query with at least one token, every stored record in which at least one
\* token of the query occurs as a substring of its subject, body, sender, date or
\* attachment text is in the candidate set that searchEmails scores (one token suffices)
C25_Original ==
    search.done /\ QueryTokens(search.query) # {} => RecordsWithToken \subseteq PhraseCandidates

\* ---- C28

\* the scoring text of the stored record id: subject, body, sender, date and the
\* extracted text of all its attachments
StoredText(id) ==
    dbEmails[id].subject \o <<" ">> \o dbEmails[id].body \o <<" ">> \o dbEmails[id].sender
        \o <<" ">> \o dbEmails[id].date \o <<" ">> \o AttachmentsText(JoinRows(dbAttachments, id))

StoredScore(id) == FrequencySum(StoredText(id), search.query)

\* the stored records that are not among the hits of the search
LeftOut ==
    {id \in 1..Len(dbEmails) : \A i \in 1..Len(search.hits) : search.hits[i].mailId # NumStr(id)}

\* C28: the hits of searchEmails are the max(1, topK) highest-scoring records among all
\* stored records with a score above zero: as many hits as there are such records, up
\* to max(1, topK), and no stored record left out of the result has a score strictly
\* greater than the score of a returned hit
C28_Original ==
    search.done =>
        /\ Len(search.hits) = Min(Max(1, search.topK),
                                  Cardinality({id \in 1..Len(dbEmails) : StoredScore(id) > 0}))
        /\ \A id \in LeftOut : \A i \in 1..Len(search.hits) : StoredScore(id) <= search.hits[i].score

\* ---- C27

\* a classification that is a string with at least one character
NonEmpty(v) == v.type = "string" /\ v.str # <<>>

\* C27: after any sequence of import, single classify, classify-all,
\* process-unprocessed and manual update requests, every email whose processed flag
\* is set has a non-empty classification
C27_Original ==
    \A id \in 1..Len(procEmails) :
        procEmails[id].isProcessed => NonEmpty(procEmails[id].classification)

=============================================================================
